---- MODULE Spec2Model ----
(***************************************************************************)
(* Sequential diagnostic-reasoning engine (inforMED): knowledge base,      *)
(* entropy, Bayesian update, information gain, greedy question selection,  *)
(* and the sessions that drive them (analysis.py loops, streamlit_app.py   *)
(* handlers).                                                              *)
(*                                                                         *)
(* Numbers.  The program computes in Python floats.  Here a float is an    *)
(* exact rational <<n, d>> in lowest terms (d > 0), so products, sums and  *)
(* quotients are the real-number results of the code's expressions.        *)
(* np.log2 is irrational on almost every argument; it is computed as a     *)
(* fixed-point logarithm with LOG_SCALE steps per bit (table of the        *)
(* mantissa plus linear interpolation), accurate to one step.              *)
(***************************************************************************)
EXTENDS Integers, Sequences, FiniteSets, TLC

(***************************************************************************)
(* Rational arithmetic                                                     *)
(***************************************************************************)
Abs(x) == IF x < 0 THEN -x ELSE x

RECURSIVE GCD(_, _)
GCD(a, b) == IF b = 0 THEN a ELSE GCD(b, a % b)

\* n/d divided through by g, with a positive denominator
DividedBy(n, d, g) ==
    IF d < 0 THEN <<(-n) \div g, (-d) \div g>> ELSE <<n \div g, d \div g>>

\* the float n/d, in lowest terms with a positive denominator
Rat(n, d) == DividedBy(n, d, GCD(Abs(n), Abs(d)))

Zero == <<0, 1>>
One == <<1, 1>>

\* a decimal literal with two fractional digits: Dec(90) is 0.90
Dec(hundredths) == Rat(hundredths, 100)

RNeg(x) == <<-x[1], x[2]>>

\* x + y over the least common denominator, g the gcd of the denominators
AddOver(x, y, g) ==
    Rat(x[1] * (y[2] \div g) + y[1] * (x[2] \div g), (x[2] \div g) * y[2])

RAdd(x, y) == AddOver(x, y, GCD(x[2], y[2]))

RSub(x, y) == RAdd(x, RNeg(y))

\* x * y with the cross factors g1 of (x[1], y[2]) and g2 of (y[1], x[2])
\* taken out before multiplying
MulOver(x, y, g1, g2) ==
    <<(x[1] \div g1) * (y[1] \div g2), (x[2] \div g2) * (y[2] \div g1)>>

RMul(x, y) == MulOver(x, y, GCD(Abs(x[1]), y[2]), GCD(Abs(y[1]), x[2]))

\* x / y for y # 0
RDiv(x, y) ==
    IF y[1] < 0 THEN RMul(x, <<-y[2], -y[1]>>) ELSE RMul(x, <<y[2], y[1]>>)

\* x < y over the least common denominator
LessOver(x, y, g) == x[1] * (y[2] \div g) < y[1] * (x[2] \div g)

RLt(x, y) == LessOver(x, y, GCD(x[2], y[2]))

RGt(x, y) == RLt(y, x)
RLe(x, y) == ~RLt(y, x)
RGe(x, y) == ~RLt(x, y)

\* Python sum(xs): left to right from 0
RECURSIVE RSumUpTo(_, _)
RSumUpTo(xs, n) == IF n = 0 THEN Zero ELSE RAdd(RSumUpTo(xs, n - 1), xs[n])
RSum(xs) == RSumUpTo(xs, Len(xs))

\* Python max(xs) of a non-empty list
Larger(x, m) == IF RGt(x, m) THEN x ELSE m
RECURSIVE RMaxUpTo(_, _)
RMaxUpTo(xs, n) ==
    IF n = 1 THEN xs[1] ELSE Larger(xs[n], RMaxUpTo(xs, n - 1))
RMax(xs) == RMaxUpTo(xs, Len(xs))

(***************************************************************************)
(* Fixed-point base-2 logarithm                                            *)
(***************************************************************************)
LOG_SCALE == 1024
MANTISSA_BITS == 14

\* POW2[k + 1] = 2^k
POW2 ==
    <<1, 2, 4, 8, 16, 32, 64, 128, 256, 512, 1024, 2048, 4096, 8192, 16384,
      32768, 65536, 131072, 262144, 524288, 1048576, 2097152, 4194304,
      8388608, 16777216, 33554432, 67108864, 134217728, 268435456,
      536870912, 1073741824>>
Pow2(k) == POW2[k + 1]

\* floor(log2(n)) for 1 <= n < 2^31, by halving the bit range
FloorLog2Of4Bits(n) == IF n >= 8 THEN 3 ELSE IF n >= 4 THEN 2 ELSE IF n >= 2 THEN 1 ELSE 0
FloorLog2Of8Bits(n) ==
    IF n >= 16 THEN 4 + FloorLog2Of4Bits(n \div 16) ELSE FloorLog2Of4Bits(n)
FloorLog2Of16Bits(n) ==
    IF n >= 256 THEN 8 + FloorLog2Of8Bits(n \div 256) ELSE FloorLog2Of8Bits(n)
FloorLog2(n) ==
    IF n >= 65536 THEN 16 + FloorLog2Of16Bits(n \div 65536)
    ELSE FloorLog2Of16Bits(n)

\* LOG2_TABLE[i + 1] = round(LOG_SCALE * log2(1 + i/128)), i = 0..128
LOG2_TABLE ==
    <<0, 11, 23, 34, 45, 57, 68, 79, 90, 100, 111, 122,
      132, 143, 153, 164, 174, 184, 194, 204, 214, 224, 234, 244,
      254, 264, 273, 283, 292, 302, 311, 320, 330, 339, 348, 357,
      366, 375, 384, 393, 402, 411, 419, 428, 436, 445, 454, 462,
      470, 479, 487, 495, 504, 512, 520, 528, 536, 544, 552, 560,
      568, 576, 584, 591, 599, 607, 614, 622, 629, 637, 644, 652,
      659, 667, 674, 681, 689, 696, 703, 710, 717, 724, 731, 738,
      745, 752, 759, 766, 773, 780, 787, 793, 800, 807, 813, 820,
      827, 833, 840, 846, 853, 859, 866, 872, 879, 885, 891, 898,
      904, 910, 916, 922, 929, 935, 941, 947, 953, 959, 965, 971,
      977, 983, 989, 995, 1001, 1007, 1012, 1018, 1024>>

\* n = 2^e * (m / 2^MANTISSA_BITS): the mantissa m of n, 2^14 <= m < 2^15
Mantissa(n, e) ==
    IF e <= MANTISSA_BITS THEN n * Pow2(MANTISSA_BITS - e)
                          ELSE n \div Pow2(e - MANTISSA_BITS)

\* the table entries lo and hi around the mantissa, t/128 of the way
Interpolated(lo, hi, t) == lo + ((t * (hi - lo) + 64) \div 128)

\* round(LOG_SCALE * log2(1 + off / 2^MANTISSA_BITS))
Log2OfMantissa(off) ==
    Interpolated(LOG2_TABLE[off \div 128 + 1], LOG2_TABLE[off \div 128 + 2],
                 off % 128)

Log2FixAt(n, e) ==
    e * LOG_SCALE + Log2OfMantissa(Mantissa(n, e) - Pow2(MANTISSA_BITS))

\* round(LOG_SCALE * log2(n)) for an integer n >= 1
Log2Fix(n) == Log2FixAt(n, FloorLog2(n))

\* np.log2(p) for a float p > 0
NpLog2(p) == Rat(Log2Fix(p[1]) - Log2Fix(p[2]), LOG_SCALE)

(***************************************************************************)
(* Knowledge base (data.py)                                                *)
(***************************************************************************)
ReferenceSymptoms ==
    <<[key |-> "S1", text |-> "Is your pain best described as throbbing or pulsating?"],
      [key |-> "S2", text |-> "Is the pain located primarily on only one side of your head?"],
      [key |-> "S3", text |-> "Have you experienced nausea or vomiting with this headache?"],
      [key |-> "S4", text |-> "Does bright light or loud noise bother you during the headache?"],
      [key |-> "S5", text |-> "Would you rate the pain intensity as severe or disabling?"],
      [key |-> "S6", text |-> "Did you experience eye redness, tearing, or nasal congestion on the side of the pain?"],
      [key |-> "S7", text |-> "Does the pain typically last 4-72 hours if untreated?"],
      [key |-> "S8", text |-> "Does physical activity make the headache worse?"],
      [key |-> "S9", text |-> "Have you experienced visual disturbances (aura) before the headache?"],
      [key |-> "S10", text |-> "Is there a family history of similar headaches?"],
      [key |-> "S11", text |-> "Does the pain occur in brief attacks (15-180 minutes)?"],
      [key |-> "S12", text |-> "Do you feel restless or agitated during the headache?"],
      [key |-> "S13", text |-> "Does the pain always occur on the same side?"],
      [key |-> "S14", text |-> "Do you experience drooping eyelid or constricted pupil on the pain side?"],
      [key |-> "S15", text |-> "Is there facial pressure or fullness, especially around sinuses?"],
      [key |-> "S16", text |-> "Do you have thick nasal discharge (yellow or green)?"],
      [key |-> "S17", text |-> "Is the pain often described as a tight band around the head?"],
      [key |-> "S18", text |-> "Does the pain feel like steady pressure rather than pulsating?"],
      [key |-> "S19", text |-> "Can you continue daily activities despite the headache?"],
      [key |-> "S20", text |-> "Did the headache follow a recent illness (e.g., cold, flu)?"],
      [key |-> "S21", text |-> "Do you take pain medication more than 10-15 days per month?"],
      [key |-> "S22", text |-> "Have your headaches become more frequent over time?"],
      [key |-> "S23", text |-> "Does the pain worsen or start upon waking in the morning?"],
      [key |-> "S24", text |-> "Is the pain triggered by neck movement or sustained awkward postures?"],
      [key |-> "S25", text |-> "Do you have limited range of motion in your neck?"],
      [key |-> "S26", text |-> "Is the pain described as sharp, shooting, or electric shock-like?"],
      [key |-> "S27", text |-> "Does touching certain areas of your face trigger the pain?"],
      [key |-> "S28", text |-> "Does the pain last only seconds to 2 minutes per episode?"],
      [key |-> "S29", text |-> "Do you have high blood pressure or hypertension?"],
      [key |-> "S30", text |-> "Does the pain feel like pressure at the back of the head?"],
      [key |-> "S31", text |-> "Have you experienced dizziness or visual changes with the headache?"],
      [key |-> "S32", text |-> "Does the pain radiate from the neck to the front of the head?"],
      [key |-> "S33", text |-> "Is the headache present daily or nearly every day?"],
      [key |-> "S34", text |-> "Do you experience muscle tenderness in the neck or shoulders?"],
      [key |-> "S35", text |-> "Does the pain occur in multiple episodes throughout the day?"],
      [key |-> "S36", text |-> "Have you recently stopped or significantly reduced your caffeine intake?"]>>

ReferenceDiagnoses ==
    <<"Migraine", "Tension-Type", "Cluster", "Sinus", "Medication Overuse", "Cervicogenic", "Trigeminal Neuralgia", "Hypertensive">>

\* the row CPT[d] of data.py
ReferenceRow(d) ==
    CASE d = "Migraine" ->
        [S1 |-> Dec(90), S2 |-> Dec(75), S3 |-> Dec(85), S4 |-> Dec(90), S5 |-> Dec(80), S6 |-> Dec(10),
         S7 |-> Dec(85), S8 |-> Dec(85), S9 |-> Dec(30), S10 |-> Dec(70), S11 |-> Dec(5), S12 |-> Dec(10),
         S13 |-> Dec(40), S14 |-> Dec(5), S15 |-> Dec(15), S16 |-> Dec(5), S17 |-> Dec(10), S18 |-> Dec(15),
         S19 |-> Dec(20), S20 |-> Dec(15), S21 |-> Dec(40), S22 |-> Dec(50), S23 |-> Dec(30), S24 |-> Dec(15),
         S25 |-> Dec(20), S26 |-> Dec(5), S27 |-> Dec(5), S28 |-> Dec(2), S29 |-> Dec(15), S30 |-> Dec(20),
         S31 |-> Dec(35), S32 |-> Dec(10), S33 |-> Dec(25), S34 |-> Dec(30), S35 |-> Dec(15), S36 |-> Dec(40)]
      [] d = "Tension-Type" ->
        [S1 |-> Dec(10), S2 |-> Dec(20), S3 |-> Dec(10), S4 |-> Dec(20), S5 |-> Dec(30), S6 |-> Dec(5),
         S7 |-> Dec(40), S8 |-> Dec(20), S9 |-> Dec(2), S10 |-> Dec(30), S11 |-> Dec(5), S12 |-> Dec(10),
         S13 |-> Dec(10), S14 |-> Dec(2), S15 |-> Dec(10), S16 |-> Dec(5), S17 |-> Dec(90), S18 |-> Dec(85),
         S19 |-> Dec(70), S20 |-> Dec(10), S21 |-> Dec(35), S22 |-> Dec(40), S23 |-> Dec(40), S24 |-> Dec(30),
         S25 |-> Dec(25), S26 |-> Dec(5), S27 |-> Dec(15), S28 |-> Dec(2), S29 |-> Dec(15), S30 |-> Dec(40),
         S31 |-> Dec(15), S32 |-> Dec(20), S33 |-> Dec(45), S34 |-> Dec(70), S35 |-> Dec(10), S36 |-> Dec(50)]
      [] d = "Cluster" ->
        [S1 |-> Dec(40), S2 |-> Dec(95), S3 |-> Dec(15), S4 |-> Dec(30), S5 |-> Dec(95), S6 |-> Dec(95),
         S7 |-> Dec(10), S8 |-> Dec(30), S9 |-> Dec(5), S10 |-> Dec(15), S11 |-> Dec(95), S12 |-> Dec(90),
         S13 |-> Dec(85), S14 |-> Dec(60), S15 |-> Dec(20), S16 |-> Dec(10), S17 |-> Dec(5), S18 |-> Dec(10),
         S19 |-> Dec(5), S20 |-> Dec(5), S21 |-> Dec(10), S22 |-> Dec(30), S23 |-> Dec(40), S24 |-> Dec(10),
         S25 |-> Dec(10), S26 |-> Dec(30), S27 |-> Dec(10), S28 |-> Dec(5), S29 |-> Dec(15), S30 |-> Dec(10),
         S31 |-> Dec(20), S32 |-> Dec(10), S33 |-> Dec(40), S34 |-> Dec(20), S35 |-> Dec(85), S36 |-> Dec(10)]
      [] d = "Sinus" ->
        [S1 |-> Dec(30), S2 |-> Dec(50), S3 |-> Dec(10), S4 |-> Dec(15), S5 |-> Dec(40), S6 |-> Dec(30),
         S7 |-> Dec(50), S8 |-> Dec(40), S9 |-> Dec(2), S10 |-> Dec(10), S11 |-> Dec(5), S12 |-> Dec(5),
         S13 |-> Dec(40), S14 |-> Dec(2), S15 |-> Dec(95), S16 |-> Dec(85), S17 |-> Dec(10), S18 |-> Dec(60),
         S19 |-> Dec(50), S20 |-> Dec(80), S21 |-> Dec(15), S22 |-> Dec(25), S23 |-> Dec(60), S24 |-> Dec(20),
         S25 |-> Dec(15), S26 |-> Dec(10), S27 |-> Dec(15), S28 |-> Dec(2), S29 |-> Dec(15), S30 |-> Dec(20),
         S31 |-> Dec(25), S32 |-> Dec(10), S33 |-> Dec(30), S34 |-> Dec(20), S35 |-> Dec(10), S36 |-> Dec(15)]
      [] d = "Medication Overuse" ->
        [S1 |-> Dec(50), S2 |-> Dec(50), S3 |-> Dec(40), S4 |-> Dec(50), S5 |-> Dec(60), S6 |-> Dec(10),
         S7 |-> Dec(60), S8 |-> Dec(40), S9 |-> Dec(10), S10 |-> Dec(40), S11 |-> Dec(5), S12 |-> Dec(20),
         S13 |-> Dec(30), S14 |-> Dec(2), S15 |-> Dec(20), S16 |-> Dec(5), S17 |-> Dec(40), S18 |-> Dec(50),
         S19 |-> Dec(40), S20 |-> Dec(10), S21 |-> Dec(95), S22 |-> Dec(90), S23 |-> Dec(85), S24 |-> Dec(15),
         S25 |-> Dec(20), S26 |-> Dec(10), S27 |-> Dec(15), S28 |-> Dec(2), S29 |-> Dec(15), S30 |-> Dec(30),
         S31 |-> Dec(30), S32 |-> Dec(20), S33 |-> Dec(90), S34 |-> Dec(40), S35 |-> Dec(30), S36 |-> Dec(60)]
      [] d = "Cervicogenic" ->
        [S1 |-> Dec(20), S2 |-> Dec(80), S3 |-> Dec(20), S4 |-> Dec(30), S5 |-> Dec(50), S6 |-> Dec(15),
         S7 |-> Dec(60), S8 |-> Dec(40), S9 |-> Dec(5), S10 |-> Dec(15), S11 |-> Dec(10), S12 |-> Dec(10),
         S13 |-> Dec(75), S14 |-> Dec(5), S15 |-> Dec(15), S16 |-> Dec(5), S17 |-> Dec(30), S18 |-> Dec(60),
         S19 |-> Dec(40), S20 |-> Dec(10), S21 |-> Dec(30), S22 |-> Dec(40), S23 |-> Dec(60), S24 |-> Dec(90),
         S25 |-> Dec(85), S26 |-> Dec(25), S27 |-> Dec(40), S28 |-> Dec(2), S29 |-> Dec(15), S30 |-> Dec(70),
         S31 |-> Dec(35), S32 |-> Dec(90), S33 |-> Dec(50), S34 |-> Dec(90), S35 |-> Dec(20), S36 |-> Dec(20)]
      [] d = "Trigeminal Neuralgia" ->
        [S1 |-> Dec(5), S2 |-> Dec(95), S3 |-> Dec(5), S4 |-> Dec(10), S5 |-> Dec(98), S6 |-> Dec(20),
         S7 |-> Dec(2), S8 |-> Dec(10), S9 |-> Dec(2), S10 |-> Dec(10), S11 |-> Dec(5), S12 |-> Dec(30),
         S13 |-> Dec(90), S14 |-> Dec(2), S15 |-> Dec(10), S16 |-> Dec(5), S17 |-> Dec(5), S18 |-> Dec(5),
         S19 |-> Dec(10), S20 |-> Dec(5), S21 |-> Dec(15), S22 |-> Dec(40), S23 |-> Dec(20), S24 |-> Dec(15),
         S25 |-> Dec(10), S26 |-> Dec(98), S27 |-> Dec(95), S28 |-> Dec(95), S29 |-> Dec(15), S30 |-> Dec(10),
         S31 |-> Dec(15), S32 |-> Dec(10), S33 |-> Dec(30), S34 |-> Dec(15), S35 |-> Dec(90), S36 |-> Dec(10)]
      [] d = "Hypertensive" ->
        [S1 |-> Dec(40), S2 |-> Dec(30), S3 |-> Dec(30), S4 |-> Dec(25), S5 |-> Dec(60), S6 |-> Dec(15),
         S7 |-> Dec(40), S8 |-> Dec(50), S9 |-> Dec(10), S10 |-> Dec(25), S11 |-> Dec(10), S12 |-> Dec(20),
         S13 |-> Dec(25), S14 |-> Dec(2), S15 |-> Dec(15), S16 |-> Dec(5), S17 |-> Dec(30), S18 |-> Dec(60),
         S19 |-> Dec(40), S20 |-> Dec(10), S21 |-> Dec(20), S22 |-> Dec(50), S23 |-> Dec(70), S24 |-> Dec(20),
         S25 |-> Dec(20), S26 |-> Dec(15), S27 |-> Dec(10), S28 |-> Dec(2), S29 |-> Dec(95), S30 |-> Dec(75),
         S31 |-> Dec(70), S32 |-> Dec(30), S33 |-> Dec(60), S34 |-> Dec(30), S35 |-> Dec(25), S36 |-> Dec(25)]

\* mutant of ReferenceEntry: S28 is 0.0 wherever the table has 0.02
ReferenceEntryRulingOut(d, k) ==
    IF k = "S28" /\ ReferenceRow(d)[k] = Dec(2)
    THEN Zero
    ELSE ReferenceRow(d)[k]

\* mutant of ReferenceEntry: the table holds hard evidence, 0 for
\* the entries up to 0.05 and 1 for those from 0.95
ReferenceEntryHard(d, k) ==
    IF RLe(ReferenceRow(d)[k], Dec(5)) THEN Zero
    ELSE IF RGe(ReferenceRow(d)[k], Dec(95)) THEN One
    ELSE ReferenceRow(d)[k]

\* the entry CPT[d][k] of data.py
ReferenceEntry(d, k) == ReferenceRow(d)[k]

ReferenceCPT ==
    [d \in {ReferenceDiagnoses[i] : i \in 1..Len(ReferenceDiagnoses)} |->
        [k \in DOMAIN ReferenceRow(d) |-> ReferenceEntry(d, k)]]

ReferenceKB ==
    [DIAGNOSES |-> ReferenceDiagnoses,
     SYMPTOMS |-> ReferenceSymptoms,
     CPT |-> ReferenceCPT]

\* A three-diagnosis table in the layout of data.py.  It has what the
\* reference table lacks: a symptom that is certain for one diagnosis and
\* impossible for the others (T1), two symptoms with the same column (T2, T3)
\* and a symptom that is impossible for one diagnosis (T4).
SmallDiagnoses == <<"A", "B", "C">>

SmallSymptoms ==
    <<[key |-> "T1", text |-> "Question T1?"],
      [key |-> "T2", text |-> "Question T2?"],
      [key |-> "T3", text |-> "Question T3?"],
      [key |-> "T4", text |-> "Question T4?"]>>

SmallCPT ==
    [d \in {"A", "B", "C"} |->
      CASE d = "A" -> [T1 |-> Dec(100), T2 |-> Dec(80), T3 |-> Dec(80), T4 |-> Dec(0)]
        [] d = "B" -> [T1 |-> Dec(0), T2 |-> Dec(10), T3 |-> Dec(10), T4 |-> Dec(60)]
        [] d = "C" -> [T1 |-> Dec(0), T2 |-> Dec(50), T3 |-> Dec(50), T4 |-> Dec(30)]]

SmallKB ==
    [DIAGNOSES |-> SmallDiagnoses,
     SYMPTOMS |-> SmallSymptoms,
     CPT |-> SmallCPT]

(***************************************************************************)
(* State                                                                   *)
(***************************************************************************)
VARIABLES
    DIAGNOSES,      \* data.DIAGNOSES: the ordered diagnosis catalog
    SYMPTOMS,       \* data.SYMPTOMS: the ordered symptom catalog, key -> text
    CPT             \* data.CPT: CPT[diagnosis][symptom_key] = P(yes | diagnosis)

kbvars == <<DIAGNOSES, SYMPTOMS, CPT>>

NUM_DIAGNOSES == Len(DIAGNOSES)
PRIOR_PROBABILITY == RDiv(One, Rat(NUM_DIAGNOSES, 1))

\* Python None; the exception a dict lookup of a missing key raises and the
\* one a float division by zero raises.  An exception is the 1-tuple of its
\* name, so that no result of the engine (a distribution of NUM_DIAGNOSES > 1
\* entries, a float <<n, d>>, a 3-tuple) equals one.
None == "None"
KeyError == <<"KeyError">>
ZeroDivisionError == <<"ZeroDivisionError">>
\* a call ended by raising: its result is the exception, which propagates
\* through the callers up to the first handler (the engine has none)
Raised(result) == result = KeyError \/ result = ZeroDivisionError

\* list(SYMPTOMS.keys()), in insertion order
SymptomKeys == [i \in 1..Len(SYMPTOMS) |-> SYMPTOMS[i].key]
SymptomKeySet == {SYMPTOMS[i].key : i \in 1..Len(SYMPTOMS)}
\* SYMPTOMS[key]
SymptomText(key) ==
    IF key \in SymptomKeySet
    THEN SYMPTOMS[CHOOSE i \in 1..Len(SYMPTOMS) : SYMPTOMS[i].key = key].text
    ELSE KeyError

\* DIAGNOSES.index(diagnosis): the first position holding it
RECURSIVE IndexFrom(_, _, _)
IndexFrom(list, value, i) ==
    IF list[i] = value THEN i ELSE IndexFrom(list, value, i + 1)
DiagnosisIndex(diagnosis) == IndexFrom(DIAGNOSES, diagnosis, 1)

\* CPT[diagnosis][symptom_key] raises KeyError for some diagnosis
UnknownSymptom(symptom_key) ==
    \E d \in 1..Len(DIAGNOSES) : symptom_key \notin DOMAIN CPT[DIAGNOSES[d]]

(***************************************************************************)
(* Engine (engine.py)                                                      *)
(***************************************************************************)
\* log2(p): np.log2(p) if p > 0 else 0
log2(p) == IF RGt(p, Zero) THEN NpLog2(p) ELSE Zero

\* mutant of calculate_entropy: the minus sign of line 46 is missing
calculate_entropy_unnegated(P) ==
    RSum([i \in 1..Len(P) |-> RMul(P[i], log2(P[i]))])

\* H = -sum(P * [log2(p) for p in P])
calculate_entropy(P) ==
    RNeg(RSum([i \in 1..Len(P) |-> RMul(P[i], log2(P[i]))]))

\* mutant of UnnormalizedPosterior: line 79 appends the likelihood alone,
\* the multiplication by the prior is missing
UnnormalizedPosteriorWithoutPrior(current_P, symptom_key, answer_is_yes) ==
    [i \in 1..Len(DIAGNOSES) |->
        IF answer_is_yes
        THEN CPT[DIAGNOSES[i]][symptom_key]
        ELSE RSub(One, CPT[DIAGNOSES[i]][symptom_key])]

\* mutant of UnnormalizedPosterior: lines 76-77 are missing, the likelihood
\* of "yes" is used for both answers
UnnormalizedPosteriorUncomplemented(current_P, symptom_key, answer_is_yes) ==
    [i \in 1..Len(DIAGNOSES) |->
        RMul(CPT[DIAGNOSES[i]][symptom_key],
             current_P[DiagnosisIndex(DIAGNOSES[i])])]

\* lines 69-81: the unnormalized posterior new_P
UnnormalizedPosterior(current_P, symptom_key, answer_is_yes) ==
    LET numerator(diagnosis) ==
            LET P_S_given_D ==
                    IF answer_is_yes
                    THEN CPT[diagnosis][symptom_key]
                    ELSE RSub(One, CPT[diagnosis][symptom_key])
            IN  RMul(P_S_given_D, current_P[DiagnosisIndex(diagnosis)])
    IN  [i \in 1..Len(DIAGNOSES) |-> numerator(DIAGNOSES[i])]

\* line 84: denominator = sum(new_P)
Denominator(current_P, symptom_key, answer_is_yes) ==
    RSum(UnnormalizedPosterior(current_P, symptom_key, answer_is_yes))

\* mutant of Normalized: line 90 smooths, 0.01 is added to every entry
\* before the division
NormalizedSmoothed(new_P, denominator) ==
    IF denominator = Zero
    THEN ZeroDivisionError
    ELSE [i \in 1..Len(new_P) |->
             RDiv(RAdd(new_P[i], Dec(1)),
                  RAdd(denominator, Rat(Len(new_P), 100)))]

\* mutant of Normalized: the division by the sum is forgotten
NormalizedUndivided(new_P, denominator) == new_P

\* line 90: [p / denominator for p in new_P]; a float division by zero raises
Normalized(new_P, denominator) ==
    IF denominator = Zero
    THEN ZeroDivisionError
    ELSE [i \in 1..Len(new_P) |-> RDiv(new_P[i], denominator)]

\* mutant of bayesian_update: the test of lines 86-88 is missing
bayesian_update_unguarded(current_P, symptom_key, answer_is_yes) ==
    IF UnknownSymptom(symptom_key)
    THEN KeyError
    ELSE Normalized(UnnormalizedPosterior(current_P, symptom_key, answer_is_yes),
                    Denominator(current_P, symptom_key, answer_is_yes))

\* lines 86-91: the posterior from new_P and its sum
NormalizedOrUniform(new_P, denominator) ==
    IF denominator = Zero
    THEN [i \in 1..NUM_DIAGNOSES |-> RDiv(One, Rat(NUM_DIAGNOSES, 1))]
    ELSE Normalized(new_P, denominator)

\* mutant of Posterior: the test of line 86 is "denominator > 0", so the
\* uniform fallback is returned for every positive sum
PosteriorFallsBack(new_P) ==
    NormalizedOrUniform(new_P, RSub(RSum(new_P), RSum(new_P)))

\* lines 84-91
Posterior(new_P) == NormalizedOrUniform(new_P, RSum(new_P))

\* mutant of bayesian_update: line 78 reads the prior PRIOR_PROBABILITY in
\* place of current_P[i], what was folded before is forgotten
bayesian_update_from_prior(current_P, symptom_key, answer_is_yes) ==
    IF UnknownSymptom(symptom_key)
    THEN KeyError
    ELSE Posterior(UnnormalizedPosterior(
                      [i \in 1..Len(current_P) |-> PRIOR_PROBABILITY],
                      symptom_key, answer_is_yes))

\* mutant of bayesian_update: the likelihood is looked up with
\* CPT[diagnosis].get(symptom_key, 0.5)
bayesian_update_defaulting(current_P, symptom_key, answer_is_yes) ==
    IF UnknownSymptom(symptom_key)
    THEN Posterior([i \in 1..Len(DIAGNOSES) |-> RMul(Dec(50), current_P[i])])
    ELSE Posterior(UnnormalizedPosterior(current_P, symptom_key, answer_is_yes))

bayesian_update(current_P, symptom_key, answer_is_yes) ==
    IF UnknownSymptom(symptom_key)
    THEN KeyError
    ELSE Posterior(UnnormalizedPosterior(current_P, symptom_key, answer_is_yes))

\* lines 119-120: P_yes = sum(CPT[d][symptom_key] * current_P[i] ...)
ProbabilityOfYes(current_P, symptom_key) ==
    RSum([i \in 1..Len(DIAGNOSES) |->
             RMul(CPT[DIAGNOSES[i]][symptom_key], current_P[i])])

\* lines 121 and 131: E_H_new = (P_yes * H_yes) + (P_no * H_no)
ExpectedEntropy(P_yes, H_yes, H_no) ==
    RAdd(RMul(P_yes, H_yes), RMul(RSub(One, P_yes), H_no))

\* mutant of GainOver: line 134 subtracts the wrong way round,
\* IG = E_H_new - H_current
GainOverReversed(current_P, symptom_key, P_D_given_yes, P_D_given_no) ==
    IF Raised(P_D_given_yes) THEN P_D_given_yes
    ELSE IF Raised(P_D_given_no) THEN P_D_given_no
    ELSE RSub(ExpectedEntropy(ProbabilityOfYes(current_P, symptom_key),
                              calculate_entropy(P_D_given_yes),
                              calculate_entropy(P_D_given_no)),
              calculate_entropy(current_P))

\* lines 115-134 with the two hypothetical posteriors of lines 124 and 127;
\* an update that raises ends the call
GainOver(current_P, symptom_key, P_D_given_yes, P_D_given_no) ==
    IF Raised(P_D_given_yes) THEN P_D_given_yes
    ELSE IF Raised(P_D_given_no) THEN P_D_given_no
    ELSE RSub(calculate_entropy(current_P),
              ExpectedEntropy(ProbabilityOfYes(current_P, symptom_key),
                              calculate_entropy(P_D_given_yes),
                              calculate_entropy(P_D_given_no)))

calculate_information_gain(current_P, symptom_key) ==
    IF UnknownSymptom(symptom_key)
    THEN KeyError
    ELSE GainOver(current_P, symptom_key,
                  bayesian_update(current_P, symptom_key, TRUE),
                  bayesian_update(current_P, symptom_key, FALSE))

\* mutant of UnaskedKeys: the filter on the asked-set is forgotten
UnaskedKeysUnfiltered(asked_symptoms) == SymptomKeys

\* [k for k in SYMPTOMS.keys() if k not in asked_symptoms]
UnaskedKeys(asked_symptoms) ==
    LET NotAsked(k) == k \notin asked_symptoms
    IN  SelectSeq(SymptomKeys, NotAsked)

\* line 168 for every unasked key, in the order of unasked_keys
Gains(current_P, unasked_keys) ==
    SubSeq([i \in 1..Len(unasked_keys) |->
               calculate_information_gain(current_P, unasked_keys[i])],
           1, Len(unasked_keys))

\* mutant of LoopPass: the comparison with max_ig is forgotten, every pass
\* overwrites the best question
LoopPassOverwrites(symptom_key, ig, state) ==
    IF Raised(ig) THEN ig ELSE <<symptom_key, ig, state[3] + 1>>

\* mutant of LoopPass: ig >= max_ig, so the last of several equal gains wins
LoopPassLastOfEqual(symptom_key, ig, state) ==
    IF Raised(ig) THEN ig
    ELSE IF RGe(ig, state[2])
    THEN <<symptom_key, ig, state[3] + 1>>
    ELSE <<state[1], state[2], state[3] + 1>>

\* mutant of LoopPass: the test is "best_question_key is None", the first
\* unasked symptom is kept
LoopPassKeepsFirst(symptom_key, ig, state) ==
    IF Raised(ig) THEN ig
    ELSE IF state[1] = None
    THEN <<symptom_key, ig, state[3] + 1>>
    ELSE <<state[1], state[2], state[3] + 1>>

\* lines 170-172: one pass of the loop, on the loop state
\* <<best_question_key, max_ig, number of gains evaluated so far>>
LoopPass(symptom_key, ig, state) ==
    IF Raised(ig) THEN ig
    ELSE IF RGt(ig, state[2])
    THEN <<symptom_key, ig, state[3] + 1>>
    ELSE <<state[1], state[2], state[3] + 1>>

\* lines 167-172: the passes for unasked_keys[lo..hi], in catalog order,
\* from the loop state (the range is halved to keep the recursion shallow);
\* a pass that raises ends the loop
RECURSIVE LoopOver(_, _, _, _, _)
LoopOver(unasked_keys, ig, lo, hi, state) ==
    IF lo > hi THEN state
    ELSE IF lo = hi THEN LoopPass(unasked_keys[lo], ig[lo], state)
    ELSE LET mid == (lo + hi) \div 2
             first == LoopOver(unasked_keys, ig, lo, mid, state)
         IN  IF Raised(first) THEN first
             ELSE LoopOver(unasked_keys, ig, mid + 1, hi, first)

\* line 175 on the loop state the loop ended with: SYMPTOMS[best_question_key]
\* raises KeyError when no pass has set best_question_key
LoopResult(best) ==
    IF Raised(best) THEN best
    ELSE IF best[1] \notin SymptomKeySet THEN KeyError
    ELSE <<SymptomText(best[1]), best[1], best[2], best[3]>>

\* mutant of Selection: line 157 starts max_ig at 0.0 instead of -1.0
SelectionFromZero(current_P, unasked_keys) ==
    LoopResult(LoopOver(unasked_keys, Gains(current_P, unasked_keys),
                        1, Len(unasked_keys), <<None, Zero, 0>>))

\* mutant of Selection: line 157 starts max_ig at 1.0 instead of -1.0
SelectionFromOne(current_P, unasked_keys) ==
    LoopResult(LoopOver(unasked_keys, Gains(current_P, unasked_keys),
                        1, Len(unasked_keys), <<None, <<1, 1>>, 0>>))

\* lines 157-158 and 167-175 on unasked_keys
Selection(current_P, unasked_keys) ==
    LoopResult(LoopOver(unasked_keys, Gains(current_P, unasked_keys),
                        1, Len(unasked_keys), <<None, <<-1, 1>>, 0>>))

\* lines 157-175 on unasked_keys
SelectionOrNone(current_P, unasked_keys) ==
    IF unasked_keys = <<>>
    THEN <<None, None, Zero, 0>>
    ELSE Selection(current_P, unasked_keys)

\* mutant of NextQuestionRun: the early return of lines 163-164 is missing
NextQuestionRunUnchecked(current_P, asked_symptoms) ==
    Selection(current_P, UnaskedKeys(asked_symptoms))

\* get_next_question with the number of information gains it evaluated:
\* <<question_text, symptom_key, ig_value, evaluated>>
NextQuestionRun(current_P, asked_symptoms) ==
    SelectionOrNone(current_P, UnaskedKeys(asked_symptoms))

\* what a run returns: the tuple of line 164 or 175, or the exception
ReturnOf(run) == IF Raised(run) THEN run ELSE SubSeq(run, 1, 3)

\* returns <<question_text, symptom_key, ig_value>>
get_next_question(current_P, asked_symptoms) ==
    ReturnOf(NextQuestionRun(current_P, asked_symptoms))

\* get_next_question called again and again with current_P held fixed, each
\* returned symptom added to asked_symptoms before the next call: the gains
\* it reports, up to the call that returns "none available"
RECURSIVE RepeatedGains(_, _)
GainsFrom(current_P, asked_symptoms, question) ==
    IF question[2] = None
    THEN <<>>
    ELSE <<question[3]>>
            \o RepeatedGains(current_P, asked_symptoms \cup {question[2]})
RepeatedGains(current_P, asked_symptoms) ==
    GainsFrom(current_P, asked_symptoms,
              get_next_question(current_P, asked_symptoms))

\* streamlit_app.py, all_mi_data: the mutual information the app's chart
\* publishes for fifteen symptoms, in thousandths of a bit
all_mi_data ==
    [S28 |-> 407, S11 |-> 337, S26 |-> 313, S35 |-> 309, S27 |-> 282,
     S16 |-> 276, S6 |-> 270, S17 |-> 259, S13 |-> 251, S18 |-> 250,
     S9 |-> 59, S31 |-> 91, S22 |-> 110, S10 |-> 127, S23 |-> 128]

(***************************************************************************)
(* Callers: direct engine calls, the analysis.py loops, the streamlit app  *)
(***************************************************************************)
VARIABLES
    program,        \* which caller runs: "engine" (direct calls of the four
                    \* operations), "simulate_ig_ordering",
                    \* "trace_diagnostic_path", "simulate_random_ordering",
                    \* "streamlit_app"
    args,           \* analysis.py: [target_diagnosis, answers]
    locals,         \* the caller's own objects: the distribution and asked-set
                    \* it passes to the engine, the loop's local variables
    pc,             \* analysis.py: "loop" in the loop, "done" after return
    session_state,  \* streamlit_app.py: st.session_state
    call,           \* engine: the last direct call and what it returned
    fallback_taken  \* history: some bayesian_update evaluated so far (applied,
                    \* or hypothetical inside calculate_information_gain) found
                    \* a zero normalization sum

vars == <<DIAGNOSES, SYMPTOMS, CPT, program, args, locals, pc,
          session_state, call, fallback_taken>>

\* ---- bounds of the model -------------------------------------------------
\* direct engine calls take distributions with integer weights 0..MaxWeight
MaxWeight == 2
\* catalogs of at most this many symptoms get every asked-set, larger ones
\* the catalog prefixes of PrefixLengths
SmallCatalog == 4
\* the sessions that evaluate entropies stop being extended when the
\* posterior's common denominator exceeds this (32-bit arithmetic of TLC)
MaxDenominator == 4000
\* iterations of simulate_random_ordering that are followed
RandomTurns == 1

LCM(l, d) == (l \div GCD(l, d)) * d
RECURSIVE LCMUpTo(_, _)
LCMUpTo(P, n) == IF n = 0 THEN 1 ELSE LCM(LCMUpTo(P, n - 1), P[n][2])
CommonDenominator(P) == LCMUpTo(P, Len(P))
InRange(P) == CommonDenominator(P) <= MaxDenominator

RECURSIVE SumUpTo(_, _)
SumUpTo(w, n) == IF n = 0 THEN 0 ELSE SumUpTo(w, n - 1) + w[n]

\* ---- the floats of a long session ----------------------------------------
\* A posterior is carried exactly while its common denominator is within
\* MaxDenominator.  Beyond that the list that line 90 of bayesian_update
\* builds is kept as floats of POSTERIOR_SCALE steps between 0 and 1: each
\* quotient is rounded to the nearest step, a positive quotient to no less
\* than one step (a float division of positive numbers does not give 0.0),
\* and the largest entry takes up what the rounding adds or removes, so
\* that the list sums to 1 as the quotients do.
POSTERIOR_SCALE == 4096

RoundedSteps(p) ==
    IF RGt(p, Zero) /\ p[1] * POSTERIOR_SCALE + p[2] \div 2 < p[2]
    THEN 1
    ELSE (p[1] * POSTERIOR_SCALE + p[2] \div 2) \div p[2]

\* P.index(max(P)) for a list of integers
RECURSIVE LargestUpTo(_, _)
LargestUpTo(steps, n) ==
    IF n = 1 THEN 1
    ELSE IF steps[n] > steps[LargestUpTo(steps, n - 1)] THEN n
    ELSE LargestUpTo(steps, n - 1)

Balanced(steps, largest, excess) ==
    [i \in 1..Len(steps) |->
        Rat(IF i = largest THEN steps[i] - excess ELSE steps[i],
            POSTERIOR_SCALE)]

BalancedSteps(steps) ==
    Balanced(steps, LargestUpTo(steps, Len(steps)),
             SumUpTo(steps, Len(steps)) - POSTERIOR_SCALE)

RoundedFloats(P) == BalancedSteps([i \in 1..Len(P) |-> RoundedSteps(P[i])])

StoredFloats(P) == IF InRange(P) THEN P ELSE RoundedFloats(P)

\* ---- inputs --------------------------------------------------------------
\* the distribution with weights w
FromWeights(w) == [i \in 1..Len(w) |-> Rat(w[i], SumUpTo(w, Len(w)))]

\* weight vectors over the catalog; beyond three diagnoses the weights are
\* non-increasing over the first three entries and flat from the third on
WeightVectors ==
    {w \in [1..NUM_DIAGNOSES -> 0..MaxWeight] :
        /\ SumUpTo(w, NUM_DIAGNOSES) > 0
        /\ NUM_DIAGNOSES > 3 =>
            /\ w[1] >= w[2] /\ w[2] >= w[3]
            /\ \A i \in 3..NUM_DIAGNOSES : w[i] = w[3]}

Distributions == {FromWeights(w) : w \in WeightVectors}

\* the list [first, second, 0, ..., 0] over the catalog
StartingWith(first, second) ==
    [i \in 1..NUM_DIAGNOSES |->
        IF i = 1 THEN first ELSE IF i = 2 THEN second ELSE Zero]

\* lists of NUM_DIAGNOSES floats that are not distributions: a negative
\* entry (summing to 1), a sum of 0.75, a sum of 2
MalformedDistributions ==
    {StartingWith(Rat(-1, 2), Rat(3, 2)),
     StartingWith(Rat(1, 2), Rat(1, 4)),
     StartingWith(One, One)}

\* N non-negative entries summing to 1
ValidDistribution(P) ==
    /\ Len(P) = NUM_DIAGNOSES
    /\ \A i \in 1..NUM_DIAGNOSES : RGe(P[i], Zero)
    /\ RSum(P) = One

Prefix(n) == {SymptomKeys[i] : i \in 1..n}
PrefixLengths == {0, 1, Len(SYMPTOMS) - 2, Len(SYMPTOMS) - 1, Len(SYMPTOMS)}
AskedSets ==
    IF Len(SYMPTOMS) <= SmallCatalog
    THEN SUBSET SymptomKeySet
    ELSE {Prefix(n) : n \in PrefixLengths}

\* the symptoms of a second update that follows a direct one: every symptom
\* of a small catalog, the first two and the last two of a larger one
SecondSymptoms ==
    IF Len(SYMPTOMS) <= SmallCatalog
    THEN SymptomKeySet
    ELSE Prefix(2) \cup (SymptomKeySet \ Prefix(Len(SYMPTOMS) - 2))

\* an asked-set that holds an identifier of no catalog beside the first
\* symptom
UnknownAskedSets == {Prefix(1) \cup {"S0"}}

\* the inputs (target_diagnosis, answers) of the analysis.py loops: for the
\* reference catalog every target with no answer, so that each answer is
\* the one aligned to the target, the test cases of analysis.py (lines
\* 140-166) and a dictionary of all yes, of all no; for a small catalog every
\* target with no answer, an answer to the first symptom, or all answers
Case(t, a) == [target_diagnosis |-> t, answers |-> a]
AnalysisInputs ==
    IF Len(SYMPTOMS) <= SmallCatalog
    THEN {Case(DIAGNOSES[i], a) :
            i \in 1..Len(DIAGNOSES),
            a \in UNION {[D -> BOOLEAN] : D \in {{}, Prefix(1), SymptomKeySet}}}
    ELSE {Case(DIAGNOSES[i], [k \in {} |-> TRUE]) : i \in 1..Len(DIAGNOSES)}
         \cup
         {Case("Migraine", [k \in {"S1", "S3", "S4", "S7", "S8"} |-> TRUE]),
          Case("Trigeminal Neuralgia", [k \in {"S28", "S26", "S27", "S2"} |-> TRUE]),
          Case("Tension-Type", [k \in {"S17", "S18", "S19", "S34"} |-> TRUE]),
          Case("Cluster", [k \in {"S11", "S6", "S5", "S12"} |-> TRUE]),
          Case("Hypertensive", [k \in SymptomKeySet |-> TRUE]),
          Case("Hypertensive", [k \in SymptomKeySet |-> FALSE])}

\* [PRIOR_PROBABILITY] * NUM_DIAGNOSES
UniformPrior == [i \in 1..NUM_DIAGNOSES |-> PRIOR_PROBABILITY]

\* 0.90, the confidence threshold of the callers
CONFIDENCE == Dec(90)

\* ---- history of the fallback ----------------------------------------------
UpdateFallsBack(current_P, symptom_key, answer_is_yes) ==
    /\ ~UnknownSymptom(symptom_key)
    /\ Denominator(current_P, symptom_key, answer_is_yes) = Zero

GainFallsBack(current_P, symptom_key) ==
    \E a \in BOOLEAN : UpdateFallsBack(current_P, symptom_key, a)

SelectionFallsBack(current_P, asked_symptoms) ==
    \E k \in SymptomKeySet \ asked_symptoms : GainFallsBack(current_P, k)

\* ---- initial states -------------------------------------------------------
NoCall == [op |-> "none"]

InitEngine ==
    /\ program = "engine"
    /\ args = None
    /\ \E P \in Distributions \cup MalformedDistributions,
          asked \in AskedSets \cup UnknownAskedSets :
          locals = [P |-> P, asked |-> asked]
    /\ pc = None
    /\ session_state = None

\* analysis.py lines 86-93, 213-219, 276-278
InitAnalysis ==
    /\ program \in {"simulate_ig_ordering", "trace_diagnostic_path",
                    "simulate_random_ordering"}
    /\ args \in AnalysisInputs
    /\ locals =
          IF program = "trace_diagnostic_path"
          THEN [P |-> UniformPrior, asked |-> {},
                path |-> << <<0, None, "Initial state", None, None,
                              calculate_entropy(UniformPrior)>> >>,
                question_num |-> 1]
          ELSE IF program = "simulate_ig_ordering"
          THEN [P |-> UniformPrior, asked |-> {}, question_count |-> 0]
          ELSE [P |-> UniformPrior, asked |-> {}, question_count |-> 0,
                iterated |-> {}]
    /\ pc = "loop"
    /\ session_state = None

\* streamlit_app.py init_session, lines 59-65
init_session ==
    [current_P |-> UniformPrior,
     asked_symptoms |-> {},
     entropy_history |-> << <<3, 1>> >>,
     question_count |-> 0,
     answers_history |-> <<>>]

InitApp ==
    /\ program = "streamlit_app"
    /\ args = None
    /\ locals = None
    /\ pc = None
    /\ session_state = init_session

InitKB(kb) ==
    /\ DIAGNOSES = kb.DIAGNOSES
    /\ SYMPTOMS = kb.SYMPTOMS
    /\ CPT = kb.CPT
    /\ call = NoCall
    /\ fallback_taken = FALSE
    /\ (InitEngine \/ InitAnalysis \/ InitApp)

Init == InitKB(ReferenceKB) \/ InitKB(SmallKB)

(***************************************************************************)
(* Direct calls of the engine's four operations on the caller's objects    *)
(***************************************************************************)
\* the symptom keys of the direct calls: every key of the catalog and one
\* identifier that is in no catalog
CallKeys == SymptomKeySet \cup {"S0"}

CallEntropy ==
    /\ program = "engine"
    /\ call = NoCall
    /\ call' = [op |-> "calculate_entropy",
                ret |-> calculate_entropy(locals.P)]
    /\ UNCHANGED <<DIAGNOSES, SYMPTOMS, CPT, program, args, locals, pc,
                   session_state, fallback_taken>>

\* mutant of CallBayesianUpdate: the posterior is written into current_P,
\* which is returned
CallBayesianUpdateInPlace(symptom_key, answer_is_yes) ==
    /\ program = "engine"
    /\ call = NoCall
    /\ \E posterior \in {bayesian_update(locals.P, symptom_key, answer_is_yes)} :
          /\ locals' = [locals EXCEPT !.P = posterior]
          /\ call' = [op |-> "bayesian_update",
                      symptom_key |-> symptom_key,
                      answer_is_yes |-> answer_is_yes,
                      ret |-> posterior,
                      ret_is_current_P |-> TRUE]
    /\ fallback_taken' =
          (fallback_taken
             \/ UpdateFallsBack(locals.P, symptom_key, answer_is_yes))
    /\ UNCHANGED <<DIAGNOSES, SYMPTOMS, CPT, program, args, pc, session_state>>

\* the returned list is built by lines 88 or 90: a new object, never current_P
CallBayesianUpdate(symptom_key, answer_is_yes) ==
    /\ program = "engine"
    /\ call = NoCall
    /\ call' = [op |-> "bayesian_update",
                symptom_key |-> symptom_key,
                answer_is_yes |-> answer_is_yes,
                ret |-> bayesian_update(locals.P, symptom_key, answer_is_yes),
                ret_is_current_P |-> FALSE]
    /\ fallback_taken' =
          (fallback_taken
             \/ UpdateFallsBack(locals.P, symptom_key, answer_is_yes))
    /\ UNCHANGED <<DIAGNOSES, SYMPTOMS, CPT, program, args, locals, pc,
                   session_state>>

CallInformationGain(symptom_key) ==
    /\ program = "engine"
    /\ call = NoCall
    /\ call' = [op |-> "calculate_information_gain",
                symptom_key |-> symptom_key,
                ret |-> calculate_information_gain(locals.P, symptom_key)]
    /\ fallback_taken' =
          (fallback_taken \/ GainFallsBack(locals.P, symptom_key))
    /\ UNCHANGED <<DIAGNOSES, SYMPTOMS, CPT, program, args, locals, pc,
                   session_state>>

CallNextQuestion ==
    /\ program = "engine"
    /\ call = NoCall
    /\ \E run \in {NextQuestionRun(locals.P, locals.asked)} :
          call' = [op |-> "get_next_question",
                   ret |-> ReturnOf(run),
                   evaluated |-> IF Raised(run) THEN None ELSE run[4]]
    /\ fallback_taken' =
          (fallback_taken \/ SelectionFallsBack(locals.P, locals.asked))
    /\ UNCHANGED <<DIAGNOSES, SYMPTOMS, CPT, program, args, locals, pc,
                   session_state>>

(***************************************************************************)
(* analysis.py                                                             *)
(***************************************************************************)
\* answers.get(question_key, CPT[target_diagnosis][question_key] > 0.5)
Answer(question_key) ==
    IF question_key \in DOMAIN args.answers
    THEN args.answers[question_key]
    ELSE RGt(CPT[args.target_diagnosis][question_key], Dec(50))

\* mutant of LoopContinues: the confidence test is missing
LoopContinuesToExhaustion(P, asked) == Cardinality(asked) < Len(SYMPTOMS)

\* the condition of the while loops (lines 94 and 280):
\* max(P) < 0.90 and len(asked) < len(SYMPTOMS)
LoopContinues(P, asked) ==
    /\ RLt(RMax(P), CONFIDENCE)
    /\ Cardinality(asked) < Len(SYMPTOMS)

\* mutant of SimulateIgAnswered: line 291, asked.add(question_key), is
\* missing
SimulateIgAnsweredNotRecorded(question_key) ==
    [P |-> StoredFloats(bayesian_update(locals.P, question_key,
                                        Answer(question_key))),
     asked |-> locals.asked,
     question_count |-> locals.question_count + 1]

\* mutant of SimulateIgAnswered: line 289 is missing, P stays the prior
SimulateIgAnsweredWithoutUpdate(question_key) ==
    [P |-> locals.P,
     asked |-> locals.asked \cup {question_key},
     question_count |-> locals.question_count + 1]

\* lines 286-292 with the question of line 281
SimulateIgAnswered(question_key) ==
    [P |-> StoredFloats(bayesian_update(locals.P, question_key,
                                        Answer(question_key))),
     asked |-> locals.asked \cup {question_key},
     question_count |-> locals.question_count + 1]

\* a pass of a selection loop evaluates a zero normalization sum, in the
\* gains of get_next_question or in the update with the answer
PassFallsBack(current_P, asked_symptoms, question_key, answer_is_yes) ==
    \/ SelectionFallsBack(current_P, asked_symptoms)
    \/ /\ question_key # None
       /\ UpdateFallsBack(current_P, question_key, answer_is_yes)

\* simulate_ig_ordering, lines 280-292: one pass of the while loop
SimulateIgStep ==
    /\ program = "simulate_ig_ordering"
    /\ pc = "loop"
    /\ LoopContinues(locals.P, locals.asked)
    /\ \E question \in {get_next_question(locals.P, locals.asked)} :
          IF question[2] = None
          THEN /\ pc' = "done"
               /\ fallback_taken' =
                     (fallback_taken
                        \/ SelectionFallsBack(locals.P, locals.asked))
               /\ UNCHANGED locals
          ELSE /\ locals' = SimulateIgAnswered(question[2])
               /\ fallback_taken' =
                     (fallback_taken
                        \/ PassFallsBack(locals.P, locals.asked, question[2],
                                         Answer(question[2])))
               /\ pc' = pc
    /\ UNCHANGED <<DIAGNOSES, SYMPTOMS, CPT, program, args, session_state, call>>

\* line 280 false, line 294: return question_count
SimulateIgReturn ==
    /\ program = "simulate_ig_ordering"
    /\ pc = "loop"
    /\ ~LoopContinues(locals.P, locals.asked)
    /\ pc' = "done"
    /\ UNCHANGED <<DIAGNOSES, SYMPTOMS, CPT, program, args, locals,
                   session_state, call, fallback_taken>>

\* lines 101-125 with the question of line 96
TraceUpdated(question_key, ig, answer, new_P) ==
    [P |-> new_P,
     asked |-> locals.asked \cup {question_key},
     path |-> Append(locals.path,
                     <<locals.question_num, question_key,
                       SymptomText(question_key),
                       IF answer THEN "Yes" ELSE "No",
                       ig, calculate_entropy(new_P)>>),
     question_num |-> locals.question_num + 1]

TraceAnswered(question) ==
    TraceUpdated(question[2], question[3], Answer(question[2]),
                 bayesian_update(locals.P, question[2], Answer(question[2])))

\* trace_diagnostic_path, lines 94-125: one pass of the while loop
TraceStep ==
    /\ program = "trace_diagnostic_path"
    /\ pc = "loop"
    /\ LoopContinues(locals.P, locals.asked)
    /\ InRange(locals.P)
    /\ \E question \in {get_next_question(locals.P, locals.asked)} :
          IF question[2] = None
          THEN /\ pc' = "done"
               /\ fallback_taken' =
                     (fallback_taken
                        \/ SelectionFallsBack(locals.P, locals.asked))
               /\ UNCHANGED locals
          ELSE /\ locals' = TraceAnswered(question)
               /\ fallback_taken' =
                     (fallback_taken
                        \/ PassFallsBack(locals.P, locals.asked, question[2],
                                         Answer(question[2])))
               /\ pc' = pc
    /\ UNCHANGED <<DIAGNOSES, SYMPTOMS, CPT, program, args, session_state, call>>

\* line 94 false, line 127: return path
TraceReturn ==
    /\ program = "trace_diagnostic_path"
    /\ pc = "loop"
    /\ ~LoopContinues(locals.P, locals.asked)
    /\ pc' = "done"
    /\ UNCHANGED <<DIAGNOSES, SYMPTOMS, CPT, program, args, locals,
                   session_state, call, fallback_taken>>

\* simulate_random_ordering, lines 221-230: one pass of the for loop over the
\* shuffled catalog; the shuffle is the free choice of the next symptom among
\* those not yet iterated.  asked is created (line 214) and never written.
RandomStep(symptom_key) ==
    /\ program = "simulate_random_ordering"
    /\ pc = "loop"
    /\ symptom_key \in SymptomKeySet \ locals.iterated
    /\ \/ Len(SYMPTOMS) <= SmallCatalog
       \/ Cardinality(locals.iterated) < RandomTurns
    /\ IF RGe(RMax(locals.P), CONFIDENCE)
       THEN /\ pc' = "done"
            /\ UNCHANGED <<locals, fallback_taken>>
       ELSE /\ locals' =
                 [P |-> bayesian_update(locals.P, symptom_key,
                                        Answer(symptom_key)),
                  asked |-> locals.asked,
                  question_count |-> locals.question_count + 1,
                  iterated |-> locals.iterated \cup {symptom_key}]
            /\ fallback_taken' =
                 (fallback_taken
                    \/ UpdateFallsBack(locals.P, symptom_key,
                                       Answer(symptom_key)))
            /\ pc' = pc
    /\ UNCHANGED <<DIAGNOSES, SYMPTOMS, CPT, program, args, session_state, call>>

\* the shuffled list is exhausted
RandomReturn ==
    /\ program = "simulate_random_ordering"
    /\ pc = "loop"
    /\ locals.iterated = SymptomKeySet
    /\ pc' = "done"
    /\ UNCHANGED <<DIAGNOSES, SYMPTOMS, CPT, program, args, locals,
                   session_state, call, fallback_taken>>

(***************************************************************************)
(* streamlit_app.py, tab1                                                  *)
(***************************************************************************)
\* lines 99, 129-131: what a run of the script computes before it renders
max_prob == RMax(session_state.current_P)
Rendered ==
    get_next_question(session_state.current_P, session_state.asked_symptoms)

\* the body shared by the four answer handlers (lines 172-190, 196-214,
\* 232-246, 253-269)
\* mutant of Updated: the append to entropy_history is missing
UpdatedWithoutEntropy(question_text, question_key, answer_is_yes, new_P) ==
    [current_P |-> new_P,
     asked_symptoms |-> session_state.asked_symptoms \cup {question_key},
     entropy_history |-> session_state.entropy_history,
     question_count |-> session_state.question_count + 1,
     answers_history |->
         Append(session_state.answers_history,
                [question |-> question_text,
                 answer |-> IF answer_is_yes THEN "yes" ELSE "no",
                 key |-> question_key])]

\* mutant of Updated: the asked-set is rebuilt from the question just
\* answered instead of being added to
UpdatedAskedReplaced(question_text, question_key, answer_is_yes, new_P) ==
    [current_P |-> new_P,
     asked_symptoms |-> {question_key},
     entropy_history |->
         Append(session_state.entropy_history, calculate_entropy(new_P)),
     question_count |-> session_state.question_count + 1,
     answers_history |->
         Append(session_state.answers_history,
                [question |-> question_text,
                 answer |-> IF answer_is_yes THEN "yes" ELSE "no",
                 key |-> question_key])]

Updated(question_text, question_key, answer_is_yes, new_P) ==
    [current_P |-> new_P,
     asked_symptoms |-> session_state.asked_symptoms \cup {question_key},
     entropy_history |->
         Append(session_state.entropy_history, calculate_entropy(new_P)),
     question_count |-> session_state.question_count + 1,
     answers_history |->
         Append(session_state.answers_history,
                [question |-> question_text,
                 answer |-> IF answer_is_yes THEN "yes" ELSE "no",
                 key |-> question_key])]

Answered(question, answer_is_yes) ==
    Updated(question[1], question[2], answer_is_yes,
            bayesian_update(session_state.current_P, question[2],
                            answer_is_yes))

\* YES / NO of the normal flow, lines 217-269
AnswerMain(answer_is_yes) ==
    /\ program = "streamlit_app"
    /\ InRange(session_state.current_P)
    /\ \E question \in {Rendered} :
          /\ question[1] # None
          /\ ~RGe(max_prob, CONFIDENCE)
          /\ session_state' = Answered(question, answer_is_yes)
          /\ fallback_taken' =
                (fallback_taken
                   \/ PassFallsBack(session_state.current_P,
                                    session_state.asked_symptoms,
                                    question[2], answer_is_yes))
    /\ UNCHANGED <<DIAGNOSES, SYMPTOMS, CPT, program, args, locals, pc, call>>

\* YES (Continue) / NO (Continue) in the expander, lines 141-214
AnswerContinue(answer_is_yes) ==
    /\ program = "streamlit_app"
    /\ InRange(session_state.current_P)
    /\ \E question \in {Rendered} :
          /\ question[1] # None
          /\ RGe(max_prob, CONFIDENCE)
          /\ session_state' = Answered(question, answer_is_yes)
          /\ fallback_taken' =
                (fallback_taken
                   \/ PassFallsBack(session_state.current_P,
                                    session_state.asked_symptoms,
                                    question[2], answer_is_yes))
    /\ UNCHANGED <<DIAGNOSES, SYMPTOMS, CPT, program, args, locals, pc, call>>

\* mutant of Reset: init_session leaves asked_symptoms as it is
ResetKeepsAsked ==
    /\ program = "streamlit_app"
    /\ session_state' =
          [init_session EXCEPT
              !.asked_symptoms = session_state.asked_symptoms]
    /\ UNCHANGED <<DIAGNOSES, SYMPTOMS, CPT, program, args, locals, pc, call,
                   fallback_taken>>

\* the Reset button, lines 115-117
Reset ==
    /\ program = "streamlit_app"
    /\ session_state' = init_session
    /\ UNCHANGED <<DIAGNOSES, SYMPTOMS, CPT, program, args, locals, pc, call,
                   fallback_taken>>

(***************************************************************************)
(* Specification                                                           *)
(***************************************************************************)
Next ==
    \/ CallEntropy
    \/ \E k \in CallKeys, a \in BOOLEAN : CallBayesianUpdate(k, a)
    \/ \E k \in CallKeys : CallInformationGain(k)
    \/ CallNextQuestion
    \/ SimulateIgStep
    \/ SimulateIgReturn
    \/ TraceStep
    \/ TraceReturn
    \/ \E k \in SymptomKeySet : RandomStep(k)
    \/ RandomReturn
    \/ \E a \in BOOLEAN : AnswerMain(a)
    \/ \E a \in BOOLEAN : AnswerContinue(a)
    \/ Reset

Spec == Init /\ [][Next]_vars

(***************************************************************************)
(* Two sessions over the same engine: two runs of the loop of              *)
(* simulate_ig_ordering, each with its own P and asked, interleaved at the *)
(* calls of the engine                                                     *)
(***************************************************************************)
\* answers.get(question_key, CPT[target_diagnosis][question_key] > 0.5) with
\* the arguments of one run
AnswerIn(case, question_key) ==
    IF question_key \in DOMAIN case.answers
    THEN case.answers[question_key]
    ELSE RGt(CPT[case.target_diagnosis][question_key], Dec(50))

\* the arguments of the two runs: for a small catalog every target with no
\* answer or with "no" to everything, for the reference catalog two of the
\* test cases of analysis.py, which differ in the first answer
SessionInputs ==
    IF Len(SYMPTOMS) <= SmallCatalog
    THEN {Case(DIAGNOSES[i], a) :
            i \in 1..Len(DIAGNOSES),
            a \in {[k \in {} |-> TRUE], [k \in SymptomKeySet |-> FALSE]}}
    ELSE {c \in AnalysisInputs :
            c.target_diagnosis \in {"Trigeminal Neuralgia", "Sinus"}}

\* the run of lines 276-292 alone, from P and asked on: the trail it goes
\* through, as far as the posterior's denominators are followed
RECURSIVE SoloTrail(_, _, _)
SoloFolded(case, asked, question_key, new_P) ==
    << <<question_key, new_P>> >>
        \o SoloTrail(case, new_P, asked \cup {question_key})
SoloAfter(case, P, asked, question) ==
    IF question[2] = None
    THEN <<>>
    ELSE SoloFolded(case, asked, question[2],
                    bayesian_update(P, question[2],
                                    AnswerIn(case, question[2])))
SoloTrail(case, P, asked) ==
    IF LoopContinues(P, asked) /\ InRange(P)
    THEN SoloAfter(case, P, asked, get_next_question(P, asked))
    ELSE <<>>

\* lines 276-278: the objects a run creates; question is the key line 281
\* returned and line 289 has not folded yet; trail is what the run has gone
\* through so far, <<question_key, P after the update>> per pass, and alone
\* what the same run goes through when nothing else runs, for comparison
SessionStart(case) ==
    [P |-> UniformPrior, asked |-> {}, question_count |-> 0,
     question |-> None, trail |-> <<>>,
     alone |-> SoloTrail(case, UniformPrior, {})]

InitSessions ==
    /\ program = "sessions"
    /\ args \in [1..2 -> SessionInputs]
    /\ locals = [i \in 1..2 |-> None]
    /\ pc = [i \in 1..2 |-> "start"]
    /\ session_state = None

InitSessionsKB(kb) ==
    /\ DIAGNOSES = kb.DIAGNOSES
    /\ SYMPTOMS = kb.SYMPTOMS
    /\ CPT = kb.CPT
    /\ call = NoCall
    /\ fallback_taken = FALSE
    /\ InitSessions

\* lines 276-278 of run i
SessionCreate(i) ==
    /\ program = "sessions"
    /\ pc[i] = "start"
    /\ locals' = [locals EXCEPT ![i] = SessionStart(args[i])]
    /\ pc' = [pc EXCEPT ![i] = "loop"]
    /\ UNCHANGED <<DIAGNOSES, SYMPTOMS, CPT, program, args, session_state,
                   call, fallback_taken>>

\* lines 280-284 of run i: the loop test and the call of get_next_question
SessionSelect(i) ==
    /\ program = "sessions"
    /\ pc[i] = "loop"
    /\ LoopContinues(locals[i].P, locals[i].asked)
    /\ InRange(locals[i].P)
    /\ \E question \in {get_next_question(locals[i].P, locals[i].asked)} :
          IF question[2] = None
          THEN /\ pc' = [pc EXCEPT ![i] = "done"]
               /\ UNCHANGED locals
          ELSE /\ locals' = [locals EXCEPT ![i].question = question[2]]
               /\ pc' = [pc EXCEPT ![i] = "answer"]
    /\ UNCHANGED <<DIAGNOSES, SYMPTOMS, CPT, program, args, session_state,
                   call, fallback_taken>>

\* lines 289-292 on the objects of one run, with the list line 289 returned
FoldedWith(session, new_P) ==
    [P |-> new_P,
     asked |-> session.asked \cup {session.question},
     question_count |-> session.question_count + 1,
     question |-> None,
     trail |-> Append(session.trail, <<session.question, new_P>>),
     alone |-> session.alone]

\* lines 286-292 on the objects of one run
Folded(session, case) ==
    FoldedWith(session,
               bayesian_update(session.P, session.question,
                               AnswerIn(case, session.question)))

\* mutant of SessionFold: asked is one module-level set, line 291 adds the
\* key to the asked-set of both runs
SessionFoldSharedAsked(i) ==
    /\ program = "sessions"
    /\ pc[i] = "answer"
    /\ locals' =
          [j \in 1..2 |->
              IF j = i
              THEN Folded(locals[i], args[i])
              ELSE IF pc[j] = "start" THEN locals[j]
              ELSE [locals[j] EXCEPT
                      !.asked = @ \cup {locals[i].question}]]
    /\ pc' = [pc EXCEPT ![i] = "loop"]
    /\ UNCHANGED <<DIAGNOSES, SYMPTOMS, CPT, program, args, session_state,
                   call, fallback_taken>>

\* lines 286-292 of run i: the answer, the update, asked.add
SessionFold(i) ==
    /\ program = "sessions"
    /\ pc[i] = "answer"
    /\ locals' = [locals EXCEPT ![i] = Folded(locals[i], args[i])]
    /\ pc' = [pc EXCEPT ![i] = "loop"]
    /\ UNCHANGED <<DIAGNOSES, SYMPTOMS, CPT, program, args, session_state,
                   call, fallback_taken>>

\* line 280 false and line 294 of run i
SessionReturn(i) ==
    /\ program = "sessions"
    /\ pc[i] = "loop"
    /\ ~LoopContinues(locals[i].P, locals[i].asked)
    /\ pc' = [pc EXCEPT ![i] = "done"]
    /\ UNCHANGED <<DIAGNOSES, SYMPTOMS, CPT, program, args, locals,
                   session_state, call, fallback_taken>>

NextSessions ==
    \/ \E i \in 1..2 : SessionCreate(i)
    \/ \E i \in 1..2 : SessionSelect(i)
    \/ \E i \in 1..2 : SessionFold(i)
    \/ \E i \in 1..2 : SessionReturn(i)

SessionsSpec ==
    (InitSessionsKB(ReferenceKB) \/ InitSessionsKB(SmallKB))
       /\ [][NextSessions]_vars

(***************************************************************************)
(* The session of a caller: (posterior, asked-set, turn counter)           *)
(***************************************************************************)
InSession == program # "engine"

SessionP ==
    IF program = "streamlit_app" THEN session_state.current_P ELSE locals.P

\* the symptoms the session has asked; simulate_random_ordering keeps them
\* as its position in the shuffled list
SessionAsked ==
    IF program = "streamlit_app" THEN session_state.asked_symptoms
    ELSE IF program = "simulate_random_ordering" THEN locals.iterated
    ELSE locals.asked

\* the answers folded into the posterior so far
SessionTurns ==
    IF program = "streamlit_app" THEN session_state.question_count
    ELSE IF program = "trace_diagnostic_path" THEN locals.question_num - 1
    ELSE locals.question_count

\* a step that folds one more answer into the posterior
AnswerFolded == InSession /\ SessionTurns' = SessionTurns + 1

(***************************************************************************)
(* Properties                                                              *)
(***************************************************************************)

\* C1: whenever get_next_question returns a symptom key, for the
\* distribution and asked-set of the call, the key is a key of the symptom
\* catalog and is not in the asked-set passed in.
C1_ReturnedKeyIsUnasked ==
    (call.op = "get_next_question" /\ ~Raised(call.ret)
        /\ call.ret[2] # None)
    => /\ call.ret[2] \in SymptomKeySet
       /\ call.ret[2] \notin locals.asked

\* a call with a non-empty asked-set that left something to ask returned a key
C1_Witness ==
    /\ call.op = "get_next_question"
    /\ locals.asked # {}
    /\ call.ret[2] \in SymptomKeySet

\* C2: when the asked-set holds every symptom of the catalog,
\* get_next_question returns (None, None, 0), raising nothing, and has
\* evaluated no information gain.
C2_NoneAvailableWhenAllAsked ==
    (call.op = "get_next_question" /\ SymptomKeySet \subseteq locals.asked)
    => /\ call.ret = <<None, None, Zero>>
       /\ call.evaluated = 0

\* a call on the exhausted catalog, with a distribution that is not uniform
C2_Witness ==
    /\ call.op = "get_next_question"
    /\ SymptomKeySet \subseteq locals.asked
    /\ locals.P # UniformPrior

\* C3: when at least one symptom is unasked, the returned symptom's
\* information gain is greater than or equal to that of every unasked
\* symptom, and the returned gain is calculate_information_gain of the
\* distribution and the returned symptom.
C3_ReturnedGainIsMaximal ==
    (call.op = "get_next_question" /\ SymptomKeySet \ locals.asked # {})
    => /\ ~Raised(call.ret)
       /\ call.ret[2] \in SymptomKeySet \ locals.asked
       /\ call.ret[3] = calculate_information_gain(locals.P, call.ret[2])
       /\ \A k \in SymptomKeySet \ locals.asked :
             RGe(call.ret[3], calculate_information_gain(locals.P, k))

\* a call where the choice matters: some unasked symptom has a strictly
\* smaller gain than the returned one and comes later in the catalog
C3_Witness ==
    /\ call.op = "get_next_question"
    /\ call.ret[2] \in SymptomKeySet
    /\ \E k \in SymptomKeySet \ locals.asked :
          /\ RLt(calculate_information_gain(locals.P, k), call.ret[3])
          /\ \E i, j \in 1..Len(SYMPTOMS) :
                i < j /\ SymptomKeys[i] = call.ret[2] /\ SymptomKeys[j] = k

\* C4: no unasked symptom whose information gain equals the returned
\* (maximal) gain comes before the returned symptom in catalog order.
C4_TieGoesToFirstInCatalog ==
    (call.op = "get_next_question" /\ ~Raised(call.ret)
        /\ call.ret[2] # None)
    => \A i, j \in 1..Len(SYMPTOMS) :
          (/\ SymptomKeys[j] = call.ret[2]
           /\ SymptomKeys[i] \notin locals.asked
           /\ calculate_information_gain(locals.P, SymptomKeys[i])
                 = call.ret[3])
          => j <= i

\* a call where two unasked symptoms share the maximal gain, which is positive
C4_Witness ==
    /\ call.op = "get_next_question"
    /\ call.ret[2] \in SymptomKeySet
    /\ RGt(call.ret[3], Zero)
    /\ \E k \in SymptomKeySet \ (locals.asked \cup {call.ret[2]}) :
          calculate_information_gain(locals.P, k) = call.ret[3]

\* C5: a call of calculate_entropy, bayesian_update,
\* calculate_information_gain or get_next_question leaves the distribution
\* and the asked-set passed in and the knowledge base (DIAGNOSES, SYMPTOMS,
\* CPT) as they were, and the sequence bayesian_update returns is not the
\* input object.
C5_EngineCallsChangeNothing ==
    [][call' # call =>
          /\ locals' = locals
          /\ DIAGNOSES' = DIAGNOSES
          /\ SYMPTOMS' = SYMPTOMS
          /\ CPT' = CPT
          /\ call'.op \in {"calculate_entropy", "bayesian_update",
                            "calculate_information_gain", "get_next_question"}
          /\ (call'.op = "bayesian_update" => ~call'.ret_is_current_P)]_vars

\* a bayesian_update call returned a distribution other than the one passed
\* in, which is still what the caller holds
C5_Witness ==
    /\ call.op = "bayesian_update"
    /\ ~Raised(call.ret)
    /\ \E i \in 1..NUM_DIAGNOSES : call.ret[i] # locals.P[i]

\* C6: for a distribution of N non-negative entries summing to 1, a catalog
\* symptom and either answer, bayesian_update returns exactly N entries, each
\* non-negative, summing to 1; also when the sum of the unnormalized values
\* is zero.
C6_UpdateReturnsDistribution ==
    (/\ call.op = "bayesian_update"
     /\ call.symptom_key \in SymptomKeySet
     /\ Len(locals.P) = NUM_DIAGNOSES
     /\ \A i \in 1..NUM_DIAGNOSES : RGe(locals.P[i], Zero)
     /\ RSum(locals.P) = One)
    => /\ DOMAIN call.ret = 1..NUM_DIAGNOSES
       /\ \A i \in 1..NUM_DIAGNOSES : RGe(call.ret[i], Zero)
       /\ RSum(call.ret) = One

\* an update of a distribution that is not the uniform one, with the answer
\* "no", whose unnormalized values sum to zero
C6_Witness ==
    /\ call.op = "bayesian_update"
    /\ ~call.answer_is_yes
    /\ locals.P # UniformPrior
    /\ RSum(locals.P) = One
    /\ fallback_taken

\* C7: when the unnormalized posterior values sum to exactly zero,
\* bayesian_update raises no ZeroDivisionError and returns the uniform
\* distribution, every entry 1/N.
C7_ZeroSumReturnsUniform ==
    (/\ call.op = "bayesian_update"
     /\ call.symptom_key \in SymptomKeySet
     /\ Denominator(locals.P, call.symptom_key, call.answer_is_yes) = Zero)
    => /\ call.ret # ZeroDivisionError
       /\ DOMAIN call.ret = 1..NUM_DIAGNOSES
       /\ \A i \in 1..NUM_DIAGNOSES : call.ret[i] = Rat(1, NUM_DIAGNOSES)

\* an update with the answer "yes" whose unnormalized values are all zero
C7_Witness ==
    /\ call.op = "bayesian_update"
    /\ call.symptom_key \in SymptomKeySet
    /\ call.answer_is_yes
    /\ \A i \in 1..NUM_DIAGNOSES :
          UnnormalizedPosterior(locals.P, call.symptom_key, TRUE)[i] = Zero

\* C8: with the reference knowledge base no bayesian_update finds a zero
\* normalization sum, so the fallback to the uniform distribution is never
\* taken: not by an update a session applies from the uniform prior, in any
\* order of symptoms and answers, not by a hypothetical update inside
\* calculate_information_gain, and not by a direct call on a distribution.
C8_ReferenceNeverFallsBack ==
    CPT = ReferenceCPT => ~fallback_taken

\* a session over the reference knowledge base that has selected twice and
\* folded a "yes" and a "no"
C8_Witness ==
    /\ CPT = ReferenceCPT
    /\ program = "streamlit_app"
    /\ session_state.question_count = 2
    /\ session_state.answers_history[1].answer = "yes"
    /\ session_state.answers_history[2].answer = "no"

\* C9 as stated, on the knowledge base of data.py: no step of a session
\* folds an answer into the posterior unless, before it, the maximum
\* posterior entry is below 0.90 and a symptom is unasked.
C9_FoldsOnlyBelowThreshold ==
    [][(CPT = ReferenceCPT /\ AnswerFolded) =>
          /\ RLt(RMax(SessionP), CONFIDENCE)
          /\ SessionAsked # SymptomKeySet]_vars

\* C9 amended: a step of a session folds an answer only while a symptom is
\* unasked and, before it, either the maximum posterior entry is below 0.90
\* or the session is the interactive one and the answer is given in its
\* "Continue Asking Questions" expander.
C9_FoldsBelowThresholdOrOnContinue ==
    [][AnswerFolded =>
          /\ SessionAsked # SymptomKeySet
          /\ \/ RLt(RMax(SessionP), CONFIDENCE)
             \/ /\ program = "streamlit_app"
                /\ \E a \in BOOLEAN : AnswerContinue(a)]_vars

\* an interactive session folded a second answer after the posterior had
\* become certain (entropy 0, maximum entry 1)
C9_Witness ==
    /\ program = "streamlit_app"
    /\ session_state.question_count >= 2
    /\ session_state.entropy_history[Len(session_state.entropy_history) - 1]
          = Zero

\* C10: a run of simulate_ig_ordering or trace_diagnostic_path, for every
\* target and answers, ends within M = len(SYMPTOMS) question/answer turns:
\* each of its steps either ends it or takes exactly one turn, a turn asks a
\* symptom not asked before, the turns never exceed M, and after M turns the
\* loop condition is false, so that the next step is the return.
C10_SessionsEndWithinCatalogTurns ==
    [][(program \in {"simulate_ig_ordering", "trace_diagnostic_path"}) =>
          /\ (pc' = "done" \/ SessionTurns' = SessionTurns + 1)
          /\ locals'.asked \subseteq SymptomKeySet
          /\ SessionTurns' = Cardinality(locals'.asked)
          /\ SessionTurns' <= Len(SYMPTOMS)
          /\ ((SessionTurns' = Len(SYMPTOMS) /\ pc' = "loop")
                => ~LoopContinues(locals'.P, locals'.asked))]_vars

\* a run returned after asking every symptom of the catalog
C10_Witness ==
    /\ program = "simulate_ig_ordering"
    /\ pc = "done"
    /\ locals.question_count = Len(SYMPTOMS)
    /\ locals.asked = SymptomKeySet

\* C11: within a session the asked-set only grows.  Every step other than
\* the Reset button keeps every symptom of the asked-set in it; a step that
\* folds an answer in a session that selects its questions with
\* get_next_question (the app, simulate_ig_ordering, trace_diagnostic_path)
\* adds exactly the symptom that was just selected, which was not in the set;
\* the asked set of simulate_random_ordering is never written.
C11_AskedSetOnlyGrows ==
    [][\/ program = "streamlit_app" /\ Reset
       \/ /\ SessionAsked \subseteq SessionAsked'
          /\ (program = "simulate_random_ordering"
                => locals'.asked = locals.asked)
          /\ ((AnswerFolded /\ program # "simulate_random_ordering")
                => \E question \in {get_next_question(SessionP, SessionAsked)} :
                      /\ question[2] \notin SessionAsked
                      /\ SessionAsked' = SessionAsked \cup {question[2]})]_vars

\* an interactive session that has answered three questions holds three
\* symptoms in its asked-set
C11_Witness ==
    /\ program = "streamlit_app"
    /\ session_state.question_count = 3
    /\ Cardinality(session_state.asked_symptoms) = 3

\* C12: bayesian_update and calculate_information_gain, called with a
\* symptom identifier that is not a key of the catalog, end by raising
\* (the KeyError of the CPT lookup): they return no distribution and no gain.
C12_UnknownSymptomRaises ==
    (/\ call.op \in {"bayesian_update", "calculate_information_gain"}
     /\ call.symptom_key \notin SymptomKeySet)
    => call.ret = KeyError

\* a bayesian_update call with an unknown identifier and the answer "no"
\* on a distribution that is not uniform
C12_Witness ==
    /\ call.op = "bayesian_update"
    /\ call.symptom_key \notin SymptomKeySet
    /\ ~call.answer_is_yes
    /\ locals.P # UniformPrior

\* C13 as stated: calculate_entropy and bayesian_update, given a list with a
\* negative entry or whose entries do not sum to 1, end by raising instead
\* of returning a value.
C13_MalformedDistributionRejected ==
    (/\ \/ call.op = "calculate_entropy"
        \/ call.op = "bayesian_update" /\ call.symptom_key \in SymptomKeySet
     /\ ~ValidDistribution(locals.P))
    => Raised(call.ret)

\* C14: for a valid distribution P and a catalog symptom s, with
\* P(yes) = sum of CPT[d][s] * P[d] and P(no) = 1 - P(yes), the mixture
\* P(yes) * bayesian_update(P, s, yes) + P(no) * bayesian_update(P, s, no)
\* is P in every component, also when one of the two updates finds a zero
\* sum and returns the uniform distribution.  The update of the call is one
\* of the two, the update with the other answer is the second.
C14_MixtureOfUpdatesIsPrior ==
    (/\ call.op = "bayesian_update"
     /\ call.symptom_key \in SymptomKeySet
     /\ ValidDistribution(locals.P))
    => LET other == bayesian_update(locals.P, call.symptom_key,
                                    ~call.answer_is_yes)
           given_yes == IF call.answer_is_yes THEN call.ret ELSE other
           given_no == IF call.answer_is_yes THEN other ELSE call.ret
           P_yes == ProbabilityOfYes(locals.P, call.symptom_key)
       IN  /\ ~Raised(call.ret)
           /\ \A i \in 1..NUM_DIAGNOSES :
                 RAdd(RMul(P_yes, given_yes[i]),
                      RMul(RSub(One, P_yes), given_no[i])) = locals.P[i]

\* an update with the answer "yes" that found a zero sum, of a valid
\* distribution with two diagnoses of positive probability
C14_Witness ==
    /\ call.op = "bayesian_update"
    /\ call.symptom_key \in SymptomKeySet
    /\ call.answer_is_yes
    /\ ValidDistribution(locals.P)
    /\ Denominator(locals.P, call.symptom_key, TRUE) = Zero
    /\ Cardinality({i \in 1..NUM_DIAGNOSES : RGt(locals.P[i], Zero)}) = 2

\* C15: for a valid distribution and a catalog symptom the information gain
\* is not below -epsilon, epsilon being two steps of the fixed-point
\* logarithm: for the gain a direct call returns, and for the gain recorded
\* with every question of a traced session.
C15_GainIsNonNegative ==
    /\ (/\ call.op = "calculate_information_gain"
        /\ call.symptom_key \in SymptomKeySet
        /\ ValidDistribution(locals.P))
       => RGe(call.ret, Rat(-2, LOG_SCALE))
    /\ program = "trace_diagnostic_path"
       => \A j \in 2..Len(locals.path) :
             RGe(locals.path[j][5], Rat(-2, LOG_SCALE))

\* a direct call for a symptom that does not tell the two possible
\* diagnoses apart: the gain is exactly 0
C15_Witness ==
    /\ call.op = "calculate_information_gain"
    /\ call.symptom_key \in SymptomKeySet
    /\ ValidDistribution(locals.P)
    /\ Cardinality({i \in 1..NUM_DIAGNOSES : RGt(locals.P[i], Zero)}) >= 2
    /\ call.ret = Zero

\* C17: with a valid distribution held fixed, the calls of get_next_question
\* that follow a call, each with the symptom returned before added to the
\* asked-set, report gains that never increase, the first being the gain of
\* the call; they return one symptom for every unasked symptom of the
\* catalog and then "none available".
C17_RepeatedGainsNeverIncrease ==
    (call.op = "get_next_question" /\ ValidDistribution(locals.P))
    => LET gains == RepeatedGains(locals.P, locals.asked)
       IN  /\ Len(gains) = Cardinality(SymptomKeySet \ locals.asked)
           /\ (call.ret[2] # None => gains[1] = call.ret[3])
           /\ \A j \in 1..(Len(gains) - 1) : RGe(gains[j], gains[j + 1])
           /\ get_next_question(locals.P, SymptomKeySet)
                 = <<None, None, Zero>>

\* a call on the whole reference catalog: the gains of the calls that
\* follow fall from the first to the last
C17_Witness ==
    /\ call.op = "get_next_question"
    /\ locals.asked = {}
    /\ Len(SYMPTOMS) > SmallCatalog
    /\ ValidDistribution(locals.P)
    /\ LET gains == RepeatedGains(locals.P, locals.asked)
       IN  Len(gains) = Len(SYMPTOMS) /\ RGt(gains[1], gains[Len(gains)])

\* C18: for a valid distribution over N diagnoses calculate_entropy returns
\* a value from 0 to log2(N); it returns 0 exactly for the distributions
\* with one entry 1 (the entries 0 contribute 0), and log2(N) exactly for
\* the uniform distribution, which is 3 for N = 8.
C18_EntropyRange ==
    (call.op = "calculate_entropy" /\ ValidDistribution(locals.P))
    => /\ RGe(call.ret, Zero)
       /\ RLe(call.ret, NpLog2(<<NUM_DIAGNOSES, 1>>))
       /\ call.ret = Zero <=> \E i \in 1..NUM_DIAGNOSES : locals.P[i] = One
       /\ call.ret = NpLog2(<<NUM_DIAGNOSES, 1>>) <=> locals.P = UniformPrior
       /\ NUM_DIAGNOSES = 8 => NpLog2(<<NUM_DIAGNOSES, 1>>) = <<3, 1>>

\* the entropy of a distribution over eight diagnoses with the whole
\* probability on one of them
C18_Witness ==
    /\ call.op = "calculate_entropy"
    /\ NUM_DIAGNOSES = 8
    /\ \E i \in 1..NUM_DIAGNOSES : locals.P[i] = One
    /\ ValidDistribution(locals.P)
    /\ call.ret = Zero

\* C19: for a symptom whose CPT value is 1.0 for one diagnosis and 0.0 for
\* every other, bayesian_update of the uniform prior with the answer "yes"
\* returns probability 1 for that diagnosis and 0 for every other, a
\* distribution of entropy 0.
C19_CertainSymptomGivesOneHot ==
    (/\ call.op = "bayesian_update"
     /\ call.symptom_key \in SymptomKeySet
     /\ call.answer_is_yes
     /\ locals.P = UniformPrior
     /\ \E a \in 1..NUM_DIAGNOSES :
           \A i \in 1..NUM_DIAGNOSES :
              CPT[DIAGNOSES[i]][call.symptom_key]
                 = IF i = a THEN One ELSE Zero)
    => /\ ~Raised(call.ret)
       /\ \A i \in 1..NUM_DIAGNOSES :
             call.ret[i] = CPT[DIAGNOSES[i]][call.symptom_key]
       /\ calculate_entropy(call.ret) = Zero

\* the uniform prior updated with "yes" to a symptom that is certain for the
\* first diagnosis and impossible for the others
C19_Witness ==
    /\ call.op = "bayesian_update"
    /\ call.symptom_key \in SymptomKeySet
    /\ call.answer_is_yes
    /\ locals.P = UniformPrior
    /\ CPT[DIAGNOSES[1]][call.symptom_key] = One
    /\ \A i \in 2..NUM_DIAGNOSES : CPT[DIAGNOSES[i]][call.symptom_key] = Zero
    /\ call.ret[1] = One

\* C20: on the reference knowledge base (8 diagnoses, 36 symptoms), from
\* the uniform prior with an empty asked-set, get_next_question returns the
\* symptom whose information gain is the maximum over all 36 symptoms, the
\* one of lowest catalog index among those that attain it; it is S28, the
\* symptom with the largest value in the published table all_mi_data.
C20_FirstQuestionIsGlobalMaximum ==
    (/\ call.op = "get_next_question"
     /\ CPT = ReferenceCPT
     /\ Len(SYMPTOMS) = 36
     /\ NUM_DIAGNOSES = 8
     /\ locals.P = UniformPrior
     /\ locals.asked = {})
    => /\ ~Raised(call.ret)
       /\ call.ret[2] \in SymptomKeySet
       /\ call.ret[1] = SymptomText(call.ret[2])
       /\ call.ret[3] = calculate_information_gain(UniformPrior, call.ret[2])
       /\ \A k \in SymptomKeySet :
             LET ig == calculate_information_gain(UniformPrior, k)
             IN  /\ RGe(call.ret[3], ig)
                 /\ ig = call.ret[3]
                      => IndexFrom(SymptomKeys, call.ret[2], 1)
                            <= IndexFrom(SymptomKeys, k, 1)
       /\ call.ret[2] = "S28"
       /\ \A k \in DOMAIN all_mi_data :
             all_mi_data[k] <= all_mi_data[call.ret[2]]

\* the first question of the reference knowledge base, with a gain above
\* that of some other symptom
C20_Witness ==
    /\ call.op = "get_next_question"
    /\ CPT = ReferenceCPT
    /\ Len(SYMPTOMS) = 36
    /\ locals.P = UniformPrior
    /\ locals.asked = {}
    /\ call.ret[2] = "S28"
    /\ RGt(call.ret[3], calculate_information_gain(UniformPrior, "S11"))

C22_SessionsDoNotInterfere ==
    program = "sessions" =>
        \A i \in {j \in 1..2 : pc[j] # "start"} :
           LET solo == locals[i].alone
               n == Len(locals[i].trail)
           IN  /\ n <= Len(solo)
               /\ locals[i].trail = SubSeq(solo, 1, n)
               /\ locals[i].question_count = n
               /\ locals[i].asked = {solo[j][1] : j \in 1..n}
               /\ locals[i].P = IF n = 0 THEN UniformPrior ELSE solo[n][2]
               /\ pc[i] = "answer" => locals[i].question = solo[n + 1][1]
               /\ pc[i] = "done" => n = Len(solo)

\* both sessions have ended, each after at least two questions, and they
\* have not gone through the same questions and posteriors
C22_Witness ==
    /\ program = "sessions"
    /\ pc[1] = "done" /\ pc[2] = "done"
    /\ Len(locals[1].trail) >= 2 /\ Len(locals[2].trail) >= 2
    /\ locals[1].trail # locals[2].trail

\* C23: when the normalization sum is not zero, bayesian_update(P, s, answer)
\* returns one entry per diagnosis, in catalog order: L(d) * P[d] divided by
\* the sum of L * P over all diagnoses, where L(d) is CPT[d][s] for the
\* answer "yes" and 1 - CPT[d][s] for the answer "no".
C23_PosteriorIsBayesRule ==
    (call.op = "bayesian_update" /\ call.symptom_key \in SymptomKeySet)
    => LET L(i) == IF call.answer_is_yes
                   THEN CPT[DIAGNOSES[i]][call.symptom_key]
                   ELSE RSub(One, CPT[DIAGNOSES[i]][call.symptom_key])
           total == RSum([i \in 1..NUM_DIAGNOSES |->
                            RMul(L(i), locals.P[i])])
       IN  total # Zero
           => /\ DOMAIN call.ret = 1..NUM_DIAGNOSES
              /\ \A i \in 1..NUM_DIAGNOSES :
                    call.ret[i] = RDiv(RMul(L(i), locals.P[i]), total)

\* an update with the answer "no" of a distribution that is not uniform,
\* which moved the first entry
C23_Witness ==
    /\ call.op = "bayesian_update"
    /\ call.symptom_key \in SymptomKeySet
    /\ ~call.answer_is_yes
    /\ ValidDistribution(locals.P)
    /\ locals.P # UniformPrior
    /\ Denominator(locals.P, call.symptom_key, FALSE) # Zero
    /\ call.ret[1] # locals.P[1]
    /\ RGt(call.ret[1], Zero)

\* C24: get_next_question called with an asked-set that holds an identifier
\* which is not in the symptom catalog raises an error; it does not ignore
\* the identifier and return a question.
C24_UnknownAskedIdentifierRaises ==
    (call.op = "get_next_question" /\ ~(locals.asked \subseteq SymptomKeySet))
    => Raised(call.ret)

\* C25: a session is created with the uniform posterior, every entry 1/N,
\* and an empty asked-set; Reset, from any session state, restores exactly
\* the initial state: uniform posterior, empty asked-set, question count 0,
\* empty answer history, and an entropy history that holds one value, 3.0,
\* which is the entropy of the uniform posterior over the 8 diagnoses of
\* the reference knowledge base.
C25_ResetRestoresInitialSession ==
    /\ program = "streamlit_app" =>
          /\ session_state.current_P = [i \in 1..NUM_DIAGNOSES |->
                                           Rat(1, NUM_DIAGNOSES)]
          /\ session_state.asked_symptoms = {}
    /\ program \in {"simulate_ig_ordering", "trace_diagnostic_path",
                    "simulate_random_ordering"} =>
          /\ locals.P = [i \in 1..NUM_DIAGNOSES |-> Rat(1, NUM_DIAGNOSES)]
          /\ locals.asked = {}
    /\ [][(/\ program = "streamlit_app"
            /\ session_state'.question_count <= session_state.question_count)
           => /\ session_state'.current_P =
                    [i \in 1..NUM_DIAGNOSES |-> Rat(1, NUM_DIAGNOSES)]
              /\ session_state'.asked_symptoms = {}
              /\ session_state'.question_count = 0
              /\ session_state'.answers_history = <<>>
              /\ session_state'.entropy_history = << <<3, 1>> >>
              /\ DOMAIN session_state' = DOMAIN init_session
              /\ NUM_DIAGNOSES = 8 =>
                    session_state'.entropy_history =
                       <<calculate_entropy(session_state'.current_P)>>
              /\ session_state # session_state' =>
                    session_state.question_count > 0]_vars

\* the initial session state after a session that took the fallback of
\* bayesian_update: Reset has restored it
C25_Witness ==
    /\ program = "streamlit_app"
    /\ session_state.question_count = 0
    /\ session_state.asked_symptoms = {}
    /\ fallback_taken

\* C26: with the reference knowledge base every entry of the posterior is
\* strictly positive in every session state reached from the uniform prior,
\* whatever the answers, so the maximum entry is below 1 and no diagnosis
\* is ruled out: every entry of the table lies strictly between 0 and 1,
\* and an update of a distribution of positive entries returns positive
\* entries.
C26_ReferencePosteriorStaysPositive ==
    CPT = ReferenceCPT =>
       /\ \A i \in 1..NUM_DIAGNOSES, k \in SymptomKeySet :
             /\ RGt(CPT[DIAGNOSES[i]][k], Zero)
             /\ RLt(CPT[DIAGNOSES[i]][k], One)
       /\ InSession =>
             /\ \A i \in 1..NUM_DIAGNOSES : RGt(SessionP[i], Zero)
             /\ RLt(RMax(SessionP), One)
             /\ RSum(SessionP) = One
       /\ (/\ call.op = "bayesian_update"
           /\ call.symptom_key \in SymptomKeySet
           /\ ValidDistribution(locals.P)
           /\ \A i \in 1..NUM_DIAGNOSES : RGt(locals.P[i], Zero))
          => /\ \A i \in 1..NUM_DIAGNOSES : RGt(call.ret[i], Zero)
             /\ RLt(RMax(call.ret), One)

\* a session over the reference knowledge base after two answers, in which
\* some diagnosis is below 1 percent and still positive
C26_Witness ==
    /\ CPT = ReferenceCPT
    /\ InSession
    /\ SessionTurns = 2
    /\ \E i \in 1..NUM_DIAGNOSES :
          RLt(SessionP[i], Dec(1)) /\ RGt(SessionP[i], Zero)

\* C27: in every state of the interactive session question_count equals the
\* size of asked_symptoms, the length of answers_history and the length of
\* entropy_history minus 1, and each answer step, YES or NO, in the normal
\* flow or in continue mode, advances the four together by one.
C27_SessionCountersAgree ==
    /\ [](program = "streamlit_app" =>
            /\ session_state.question_count
                  = Cardinality(session_state.asked_symptoms)
            /\ session_state.question_count
                  = Len(session_state.answers_history)
            /\ session_state.question_count
                  = Len(session_state.entropy_history) - 1
            /\ session_state.asked_symptoms
                  = {session_state.answers_history[j].key :
                       j \in 1..Len(session_state.answers_history)})
    /\ [][(program = "streamlit_app" /\ session_state' # session_state
             /\ session_state'.question_count # 0)
           => /\ session_state'.question_count
                    = session_state.question_count + 1
              /\ Cardinality(session_state'.asked_symptoms)
                    = Cardinality(session_state.asked_symptoms) + 1
              /\ Len(session_state'.answers_history)
                    = Len(session_state.answers_history) + 1
              /\ Len(session_state'.entropy_history)
                    = Len(session_state.entropy_history) + 1]_vars

\* a session that has answered three questions, the last of them "no" with
\* the confidence already at 0.90 or more
C27_Witness ==
    /\ program = "streamlit_app"
    /\ session_state.question_count = 3
    /\ Cardinality(session_state.asked_symptoms) = 3
    /\ Len(session_state.entropy_history) = 4
    /\ session_state.answers_history[3].answer = "no"
    /\ RGe(max_prob, CONFIDENCE)

\* C28: answers can be folded in any order: for a valid distribution P,
\* symptoms s1, s2 and answers a1, a2, updating P with (s1, a1) and the
\* result with (s2, a2) gives the same distribution as updating P with
\* (s2, a2) and the result with (s1, a1), provided none of the four updates
\* finds a zero normalization sum.
C28_UpdatesCommute ==
    (/\ call.op = "bayesian_update"
     /\ locals.asked = {}
     /\ call.symptom_key \in SymptomKeySet
     /\ ValidDistribution(locals.P)
     /\ Denominator(locals.P, call.symptom_key, call.answer_is_yes) # Zero)
    => \A s2 \in SecondSymptoms, a2 \in BOOLEAN :
          (/\ Denominator(call.ret, s2, a2) # Zero
           /\ Denominator(locals.P, s2, a2) # Zero
           /\ Denominator(bayesian_update(locals.P, s2, a2),
                          call.symptom_key, call.answer_is_yes) # Zero)
          => bayesian_update(call.ret, s2, a2)
                = bayesian_update(bayesian_update(locals.P, s2, a2),
                                  call.symptom_key, call.answer_is_yes)

\* an update with "yes" of a distribution that is not uniform, which can be
\* followed by an update with "no" to another symptom that changes it again
C28_Witness ==
    /\ call.op = "bayesian_update"
    /\ locals.asked = {}
    /\ call.symptom_key \in SymptomKeySet
    /\ call.answer_is_yes
    /\ ValidDistribution(locals.P)
    /\ locals.P # UniformPrior
    /\ Denominator(locals.P, call.symptom_key, TRUE) # Zero
    /\ call.ret # locals.P
    /\ \E s2 \in SecondSymptoms \ {call.symptom_key} :
          /\ Denominator(call.ret, s2, FALSE) # Zero
          /\ Denominator(locals.P, s2, FALSE) # Zero
          /\ bayesian_update(call.ret, s2, FALSE) # call.ret
          /\ bayesian_update(call.ret, s2, FALSE)
                # bayesian_update(locals.P, s2, FALSE)

\* C29: for a valid distribution and an asked-set that leaves at least one
\* symptom of the catalog unasked, get_next_question returns a symptom of
\* the catalog with its question text: the gain of every candidate is above
\* the initial value -1 of max_ig, so best_question_key is set and the
\* lookup SYMPTOMS[best_question_key] does not fail.
C29_SomeQuestionIsReturned ==
    (/\ call.op = "get_next_question"
     /\ ValidDistribution(locals.P)
     /\ SymptomKeySet \ locals.asked # {})
    => /\ ~Raised(call.ret)
       /\ call.ret[2] \in SymptomKeySet \ locals.asked
       /\ \E j \in 1..Len(SYMPTOMS) :
             /\ SYMPTOMS[j].key = call.ret[2]
             /\ SYMPTOMS[j].text = call.ret[1]
       /\ RGt(call.ret[3], <<-1, 1>>)
       /\ \A k \in SymptomKeySet \ locals.asked :
             RGt(calculate_information_gain(locals.P, k), <<-1, 1>>)

\* a call on a distribution that is certain of one diagnosis: every gain is
\* 0, and the first unasked symptom is returned
C29_Witness ==
    /\ call.op = "get_next_question"
    /\ ValidDistribution(locals.P)
    /\ \E i \in 1..NUM_DIAGNOSES : locals.P[i] = One
    /\ locals.asked # {}
    /\ SymptomKeySet \ locals.asked # {}
    /\ call.ret[3] = Zero
    /\ call.ret[2] \in SymptomKeySet

\* C30: in a bayesian_update whose normalization sum is not zero, a
\* diagnosis with probability 0 in the input has probability 0 in the
\* output; a zero entry becomes positive only when the sum is zero and the
\* uniform distribution is returned.
C30_ZeroStaysZero ==
    (call.op = "bayesian_update" /\ call.symptom_key \in SymptomKeySet)
    => /\ Denominator(locals.P, call.symptom_key, call.answer_is_yes) # Zero
            => \A i \in 1..NUM_DIAGNOSES :
                  locals.P[i] = Zero => call.ret[i] = Zero
       /\ (\E i \in 1..NUM_DIAGNOSES :
              locals.P[i] = Zero /\ call.ret[i] # Zero)
            => /\ Denominator(locals.P, call.symptom_key,
                              call.answer_is_yes) = Zero
               /\ call.ret = UniformPrior

\* an update with a non-zero sum that changed a distribution and kept its
\* zero entry
C30_Witness ==
    /\ call.op = "bayesian_update"
    /\ call.symptom_key \in SymptomKeySet
    /\ ValidDistribution(locals.P)
    /\ Denominator(locals.P, call.symptom_key, call.answer_is_yes) # Zero
    /\ call.ret # locals.P
    /\ \E i, j \in 1..NUM_DIAGNOSES :
          /\ locals.P[i] = Zero /\ call.ret[i] = Zero
          /\ RGt(locals.P[j], Zero) /\ RGt(call.ret[j], Zero)
          /\ call.ret[j] # locals.P[j]
====
